---- MODULE Spec2Model ----
(***************************************************************************)
(* Model of the PDF upload / analysis pipeline of the research assistant:  *)
(*   backend/agents/pdf_upload_handler.py   (PDFUploadHandler)             *)
(*   backend/agents/pdf_analysis_agent.py   (PDFAnalysisAgent)             *)
(* The handler is one shared object driven by asyncio request tasks.  An   *)
(* action of the model is the code that runs between two suspension points *)
(* of the event loop (aiofiles I/O in _save_uploaded_file, asyncio.sleep   *)
(* in _call_llm_for_review and _call_llm_for_gaps).                        *)
(***************************************************************************)
EXTENDS Integers, Sequences, FiniteSets, TLC

(* ------------------------------------------------------------------ *)
(* Bounds of the model                                                 *)
(* ------------------------------------------------------------------ *)
\* uploads that pass validation on the handler in one behaviour
MaxUploads == 2
\* largest top_k a search request passes
MaxTopK == 3
\* pages of a generated document (extraction specification)
MaxPages == 2
\* lines of a generated page (extraction specification)
MaxLines == 2
\* files saved in one behaviour (save specification)
MaxSaves == 2
\* seconds the clock moves on in one behaviour (save specification)
MaxClock == 1
\* spans of one line (line box specification)
MaxSpans == 2
\* runs of characters of one line (sentence splitting specification)
MaxRuns == 5
\* seconds the clock moves on in one behaviour (workflow specification)
MaxCoClock == 1
\* state dicts created in one behaviour (workflow specification)
MaxWorkflows == 2

(* ------------------------------------------------------------------ *)
(* Python helpers                                                      *)
(* ------------------------------------------------------------------ *)
Min(a, b) == IF a <= b THEN a ELSE b

Max(a, b) == IF a >= b THEN a ELSE b

Abs(a) == IF a >= 0 THEN a ELSE 0 - a

Range(s) == {s[i] : i \in 1..Len(s)}

\* s[a:b] of Python for 0 <= a, b (0-based, end exclusive)
Slice(s, a, b) == IF b <= a THEN <<>> ELSE SubSeq(s, a + 1, Min(b, Len(s)))

\* str.rfind(c): the last 0-based position of c in s, -1 when absent
RFind(s, c) ==
    LET P == {i \in 1..Len(s) : s[i] = c}
    IN IF P = {} THEN -1 ELSE (CHOOSE i \in P : \A j \in P : j <= i) - 1

\* str.lower() on the characters the model's file names use
LowerChar(c) ==
    CASE c = "P" -> "p"
      [] c = "D" -> "d"
      [] c = "F" -> "f"
      [] OTHER -> c

Lower(s) == [i \in 1..Len(s) |-> LowerChar(s[i])]

\* os.path.splitext(p)[1]: the part from the last dot on, unless that dot
\* belongs to the leading dots of the last path component
SplitExt(p) ==
    LET sepIndex == RFind(p, "/")
        dotIndex == RFind(p, ".")
        nonDot   == {k \in (sepIndex + 1)..(dotIndex - 1) : p[k + 1] # "."}
    IN IF dotIndex > sepIndex /\ nonDot # {}
       THEN Slice(p, dotIndex, Len(p))
       ELSE <<>>

(* ------------------------------------------------------------------ *)
(* PDFUploadHandler: configuration and validation                      *)
(* ------------------------------------------------------------------ *)
max_file_size == 50 * 1024 * 1024

allowed_extensions == {<<".", "p", "d", "f">>}

PdfMagic == <<"%", "P", "D", "F", "-">>

\* bytes.startswith(prefix) on the leading bytes kept of an upload
StartsWith(head, prefix) ==
    /\ Len(head) >= Len(prefix)
    /\ SubSeq(head, 1, Len(prefix)) = prefix

\* File names a client may send.  NoName is filename = None.
NoName == <<"<None>">>

FileNames ==
    { <<"a", ".", "P", "D", "F">>,
      <<"a", ".", "t", "x", "t">>,
      <<".", "p", "d", "f">>,
      <<"p", "d", "f">>,
      <<"d", ".", "x", "/", "p", "d", "f">>,
      NoName }

\* An upload's bytes: their number and the first (at most five) of them.
Contents ==
    { [size |-> 0, head |-> <<>>],
      [size |-> 4, head |-> <<"%", "P", "D", "F">>],
      [size |-> 5, head |-> PdfMagic],
      [size |-> 9, head |-> <<"h", "e", "l", "l", "o">>],
      [size |-> max_file_size, head |-> PdfMagic],
      [size |-> max_file_size + 1, head |-> PdfMagic],
      [size |-> max_file_size + 1, head |-> <<"h", "e", "l", "l", "o">>] }

\* _validate_pdf_file looking at the header bytes before the length
ValidatePdfFileMagicFirst(content, filename) ==
    IF filename = NoName THEN [valid |-> FALSE, error |-> "File validation error"]
    ELSE IF Lower(SplitExt(filename)) \notin allowed_extensions
         THEN [valid |-> FALSE, error |-> "Invalid file type"]
    ELSE IF content.size > 0 /\ ~StartsWith(content.head, PdfMagic)
         THEN [valid |-> FALSE, error |-> "Invalid PDF file format"]
    ELSE IF content.size > max_file_size
         THEN [valid |-> FALSE, error |-> "File too large"]
    ELSE IF content.size = 0
         THEN [valid |-> FALSE, error |-> "File is empty"]
    ELSE [valid |-> TRUE, error |-> ""]

\* _validate_pdf_file without the check of the header bytes
ValidatePdfFileNoMagic(content, filename) ==
    IF filename = NoName THEN [valid |-> FALSE, error |-> "File validation error"]
    ELSE IF Lower(SplitExt(filename)) \notin allowed_extensions
         THEN [valid |-> FALSE, error |-> "Invalid file type"]
    ELSE IF content.size > max_file_size
         THEN [valid |-> FALSE, error |-> "File too large"]
    ELSE IF content.size = 0
         THEN [valid |-> FALSE, error |-> "File is empty"]
    ELSE [valid |-> TRUE, error |-> ""]

\* _validate_pdf_file: the first rule the input breaks, "" when it passes.
\* splitext(None) raises inside the try block, which reports a validation error.
ValidatePdfFile(content, filename) ==
    IF filename = NoName THEN [valid |-> FALSE, error |-> "File validation error"]
    ELSE IF Lower(SplitExt(filename)) \notin allowed_extensions
         THEN [valid |-> FALSE, error |-> "Invalid file type"]
    ELSE IF content.size > max_file_size
         THEN [valid |-> FALSE, error |-> "File too large"]
    ELSE IF content.size = 0
         THEN [valid |-> FALSE, error |-> "File is empty"]
    ELSE IF ~StartsWith(content.head, PdfMagic)
         THEN [valid |-> FALSE, error |-> "Invalid PDF file format"]
    ELSE [valid |-> TRUE, error |-> ""]

(* ------------------------------------------------------------------ *)
(* Documents as PyMuPDF presents them                                  *)
(* ------------------------------------------------------------------ *)
\* A piece is one element of re.split(r'[.!?]+\s+', line_text): its text
\* after strip() and the length of that text.  A line is the sequence of
\* its pieces (<<>> for a blank line), a text block has "lines", an image
\* block has none, a page has blocks and may fail to be read, a document
\* has pages and may fail to open.
Piece(t, n) == [text |-> t, len |-> n]

TextBlock(ls) == [lines |-> ls]

ImageBlock == [image |-> TRUE]

Page(r, bs) == [readable |-> r, blocks |-> bs]

Doc(o, ps) == [openable |-> o, pages |-> ps]

(* ------------------------------------------------------------------ *)
(* PDFAnalysisAgent._split_into_sentences / _extract_pdf_content       *)
(* ------------------------------------------------------------------ *)
\* _split_into_sentences keeps the stripped pieces longer than 5
MinSplitLen == 5

\* _extract_pdf_content keeps the sentences longer than 10
MinSentenceLen == 10

SplitIntoSentences(line) == SelectSeq(line, LAMBDA pc : pc.len > MinSplitLen)

\* the loop body numbering the sentences within their page: id = len(page_sentences)
RECURSIVE LineSentencesPerPage(_, _, _, _, _)
LineSentencesPerPage(ls, i, acc, page_num, bbox) ==
    IF i > Len(ls) THEN acc
    ELSE IF ls[i].len > MinSentenceLen
         THEN LET sentence_data ==
                      [id |-> Len(acc[2]),
                       text |-> ls[i].text,
                       page |-> page_num + 1,
                       bbox |-> bbox,
                       sentence_index_in_line |-> i - 1]
              IN LineSentencesPerPage(ls, i + 1,
                                      <<Append(acc[1], sentence_data),
                                        Append(acc[2], sentence_data)>>,
                                      page_num, bbox)
         ELSE LineSentencesPerPage(ls, i + 1, acc, page_num, bbox)

\* the body of "for i, sentence in enumerate(line_sentences)" from position
\* i (1-based here, 0-based in the record): acc is <<sentences, page_sentences>>
RECURSIVE LineSentences(_, _, _, _, _)
LineSentences(ls, i, acc, page_num, bbox) ==
    IF i > Len(ls) THEN acc
    ELSE IF ls[i].len > MinSentenceLen
         THEN LET sentence_data ==
                      [id |-> Len(acc[1]),
                       text |-> ls[i].text,
                       page |-> page_num + 1,
                       bbox |-> bbox,
                       sentence_index_in_line |-> i - 1]
              IN LineSentences(ls, i + 1,
                               <<Append(acc[1], sentence_data),
                                 Append(acc[2], sentence_data)>>,
                               page_num, bbox)
         ELSE LineSentences(ls, i + 1, acc, page_num, bbox)

\* "for line in block['lines']" from line j on; blank lines are skipped
RECURSIVE BlockLines(_, _, _, _, _)
BlockLines(lines, j, acc, page_num, b) ==
    IF j > Len(lines) THEN acc
    ELSE BlockLines(lines, j + 1,
                    IF lines[j] = <<>> THEN acc
                    ELSE LineSentences(SplitIntoSentences(lines[j]), 1, acc,
                                       page_num, <<page_num + 1, b, j>>),
                    page_num, b)

\* "for block in page_dict['blocks']" from block b on; blocks without
\* "lines" are skipped
RECURSIVE PageBlocks(_, _, _, _)
PageBlocks(blocks, b, acc, page_num) ==
    IF b > Len(blocks) THEN acc
    ELSE PageBlocks(blocks, b + 1,
                    IF "lines" \in DOMAIN blocks[b]
                    THEN BlockLines(blocks[b].lines, 1, acc, page_num, b)
                    ELSE acc,
                    page_num)

\* (variant numbering the pages entries from 0)
ProcessPageZeroBased(page, page_num, sentences) ==
    LET acc == PageBlocks(page.blocks, 1, <<sentences, <<>>>>, page_num)
    IN [sentences |-> acc[1],
        page_data |-> [page_number |-> page_num, sentences |-> acc[2]]]

\* One iteration of "for page_num in range(len(doc))" on a readable page:
\* the new sentences list and the entry appended to pages_data
ProcessPage(page, page_num, sentences) ==
    LET acc == PageBlocks(page.blocks, 1, <<sentences, <<>>>>, page_num)
    IN [sentences |-> acc[1],
        page_data |-> [page_number |-> page_num + 1, sentences |-> acc[2]]]

\* What _extract_pdf_content leaves behind: "ok" with the returned dict, or
\* "raised"; handle is the state of the fitz document it opened.
ExtractOk(sentences, pages_data, n) ==
    [status |-> "ok", sentences |-> sentences, pages |-> pages_data,
     total_pages |-> n, handle |-> "closed"]

ExtractRaised(handle) ==
    [status |-> "raised", sentences |-> <<>>, pages |-> <<>>,
     total_pages |-> 0, handle |-> handle]

\* The page loop from page_num on (0-based).  A page that cannot be read
\* raises out of the loop, past doc.close().  After the loop the document
\* is closed and len(doc) is evaluated on the closed document: PyMuPDF
\* builds differ on whether that returns the page count or raises.
RECURSIVE ExtractFrom(_, _, _, _, _)
ExtractFrom(doc, page_num, sentences, pages_data, lenRaises) ==
    IF page_num >= Len(doc.pages)
    THEN IF lenRaises THEN ExtractRaised("closed")
         ELSE ExtractOk(sentences, pages_data, Len(doc.pages))
    ELSE IF ~doc.pages[page_num + 1].readable THEN ExtractRaised("open")
    ELSE LET r == ProcessPage(doc.pages[page_num + 1], page_num, sentences)
         IN ExtractFrom(doc, page_num + 1, r.sentences,
                        Append(pages_data, r.page_data), lenRaises)

\* _extract_pdf_content(pdf_path): fitz.open may raise before any handle exists
ExtractPdfContent(doc, lenRaises) ==
    IF ~doc.openable THEN ExtractRaised("none")
    ELSE ExtractFrom(doc, 0, <<>>, <<>>, lenRaises)

(* ------------------------------------------------------------------ *)
(* Embeddings and the FAISS index                                      *)
(* ------------------------------------------------------------------ *)
\* SentenceTransformer.encode of one text: a vector that depends on the
\* text alone.  Vectors are axis-aligned integer pairs of any length, so
\* that L2 normalisation stays within the integers.
Encode(text) ==
    CASE text = "a0" -> <<2, 0>>
      [] text = "a1" -> <<0, 3>>
      [] text = "b0" -> <<0, 1>>
      [] text = "b1" -> <<4, 0>>
      [] text = "b2" -> <<0, -2>>
      [] text = "q0" -> <<3, 0>>
      [] text = "q1" -> <<0, 5>>
      [] OTHER -> <<1, 0>>

\* faiss.normalize_L2 of one row: divided by its norm, a zero row is left alone
NormalizeL2(v) ==
    LET n == Abs(v[1]) + Abs(v[2])
    IN IF n = 0 THEN v ELSE <<v[1] \div n, v[2] \div n>>

InnerProduct(u, v) == u[1] * v[1] + u[2] * v[2]

\* IndexFlatIP.search pads a result shorter than k with label -1 and this score
FillerScore == -2

FillerLabel == -1

\* The stored position (1-based) that ranks first among the positions in
\* rest: the highest inner product, the lowest position among equals
BestOf(vecs, q, rest) ==
    CHOOSE i \in rest : \A j \in rest :
        \/ InnerProduct(q, vecs[i]) > InnerProduct(q, vecs[j])
        \/ InnerProduct(q, vecs[i]) = InnerProduct(q, vecs[j]) /\ i <= j

\* a search that returns the stored vectors in the order they were added
RECURSIVE FaissSearchStoredOrder(_, _, _, _)
FaissSearchStoredOrder(vecs, q, k, rest) ==
    IF k <= 0 THEN <<>>
    ELSE IF rest = {} THEN <<<<FillerScore, FillerLabel>>>> \o FaissSearchStoredOrder(vecs, q, k - 1, rest)
    ELSE LET b == CHOOSE i \in rest : \A j \in rest : i <= j
         IN <<<<InnerProduct(q, vecs[b]), b - 1>>>> \o FaissSearchStoredOrder(vecs, q, k - 1, rest \ {b})

\* IndexFlatIP.search(q, k): k pairs <<score, label>> by descending score,
\* labels 0-based, padded with <<FillerScore, FillerLabel>>
RECURSIVE FaissSearch(_, _, _, _)
FaissSearch(vecs, q, k, rest) ==
    IF k <= 0 THEN <<>>
    ELSE IF rest = {} THEN <<<<FillerScore, FillerLabel>>>> \o FaissSearch(vecs, q, k - 1, rest)
    ELSE LET b == BestOf(vecs, q, rest)
         IN <<<<InnerProduct(q, vecs[b]), b - 1>>>> \o FaissSearch(vecs, q, k - 1, rest \ {b})

\* list[idx] of Python: negative positions count from the end; Raises when
\* the position is out of range (IndexError)
PyInRange(lst, idx) == 0 - Len(lst) <= idx /\ idx < Len(lst)

PyIndex(lst, idx) == IF idx >= 0 THEN lst[idx + 1] ELSE lst[Len(lst) + idx + 1]

NoIndex == [exists |-> FALSE, vecs |-> <<>>]

(* ------------------------------------------------------------------ *)
(* PDFAnalysisAgent.query_rag_index                                    *)
(* ------------------------------------------------------------------ *)
\* The loop over zip(scores[0], indices[0]) from pair i on: a pair whose
\* label passes "idx < len(self.sentence_metadata)" yields a hit
RECURSIVE QueryHits(_, _, _, _)
QueryHits(found, i, metadata, results) ==
    IF i > Len(found) THEN [status |-> "ok", error |-> "", results |-> results]
    ELSE LET score == found[i][1]
             idx   == found[i][2]
         IN IF idx < Len(metadata)
            THEN IF ~PyInRange(metadata, idx)
                 THEN [status |-> "raised", error |-> "IndexError", results |-> <<>>]
                 ELSE QueryHits(found, i + 1, metadata,
                                Append(results,
                                       [sentence |-> PyIndex(metadata, idx),
                                        similarity_score |-> score,
                                        rank |-> i]))
            ELSE QueryHits(found, i + 1, metadata, results)

\* query_rag_index without its guard: no index means no hits
QueryRagIndexUnguarded(model, index, metadata, query, top_k, fault) ==
    IF ~index.exists \/ model = 0
    THEN [status |-> "ok", error |-> "", results |-> <<>>]
    ELSE IF fault \in {"encode", "search"}
    THEN [status |-> "raised", error |-> "query failed", results |-> <<>>]
    ELSE QueryHits(FaissSearch(index.vecs, NormalizeL2(Encode(query)), top_k,
                               1..Len(index.vecs)),
                   1, metadata, <<>>)

\* query_rag_index(query, top_k) on an analyzer with the given fields.
\* fault is what the libraries do on this call: "encode" when encoding the
\* query raises, "search" when the search raises (FAISS builds differ on
\* k = 0: some return no pairs, some refuse it).
QueryRagIndex(model, index, metadata, query, top_k, fault) ==
    IF ~index.exists \/ model = 0
    THEN [status |-> "raised", error |-> "RAG index not initialized", results |-> <<>>]
    ELSE IF fault = "encode"
    THEN [status |-> "raised", error |-> "encode failed", results |-> <<>>]
    ELSE IF fault = "search"
    THEN [status |-> "raised", error |-> "search failed", results |-> <<>>]
    ELSE QueryHits(FaissSearch(index.vecs, NormalizeL2(Encode(query)), top_k,
                               1..Len(index.vecs)),
                   1, metadata, <<>>)

\* the faults the libraries can produce on a query with this top_k
QueryFaults(top_k) == {"none", "encode"} \cup (IF top_k = 0 THEN {"search"} ELSE {})

(* ------------------------------------------------------------------ *)
(* PDFAnalysisAgent._build_rag_index                                   *)
(* ------------------------------------------------------------------ *)
SentenceTexts(sentences) == [i \in 1..Len(sentences) |-> sentences[i].text]

EncodeAll(texts) == [i \in 1..Len(texts) |-> Encode(texts[i])]

NormalizeAll(embeddings) == [i \in 1..Len(embeddings) |-> NormalizeL2(embeddings[i])]

\* The faults the libraries can produce while building: encode raises;
\* embeddings.shape[1] raises for an empty array (encode([]) has no second
\* axis in the sentence-transformers builds that return np.asarray([]));
\* normalize_L2 or index.add raise (for instance on allocation failure).
BuildFaults(sentences) ==
    {"none", "encode", "normalize", "add"}
        \cup (IF Len(sentences) = 0 THEN {"shape"} ELSE {})

\* _build_rag_index adding to the index and the metadata it finds
BuildRagIndexAppending(index, metadata, sentences, fault) ==
    IF fault \in {"encode", "shape"}
    THEN [raised |-> TRUE, index |-> index, metadata |-> metadata, assigned |-> FALSE]
    ELSE IF fault \in {"normalize", "add"}
    THEN [raised |-> TRUE, index |-> [exists |-> TRUE, vecs |-> index.vecs],
          metadata |-> metadata, assigned |-> TRUE]
    ELSE [raised |-> FALSE,
          index |-> [exists |-> TRUE,
                     vecs |-> index.vecs \o NormalizeAll(EncodeAll(SentenceTexts(sentences)))],
          metadata |-> metadata \o sentences, assigned |-> TRUE]

\* _build_rag_index(sentences) with the model already initialised: the
\* analyzer's index and metadata afterwards, and whether it raised.
\* self.faiss_index is assigned the new, still empty index before the
\* vectors are normalised and added; self.sentence_metadata is assigned last.
BuildRagIndex(index, metadata, sentences, fault) ==
    LET embeddings == EncodeAll(SentenceTexts(sentences))
        fresh      == [exists |-> TRUE, vecs |-> <<>>]
    IN IF fault \in {"encode", "shape"}
       THEN [raised |-> TRUE, index |-> index, metadata |-> metadata, assigned |-> FALSE]
       ELSE IF fault \in {"normalize", "add"}
       THEN [raised |-> TRUE, index |-> fresh, metadata |-> metadata, assigned |-> TRUE]
       ELSE [raised |-> FALSE,
             index |-> [exists |-> TRUE, vecs |-> NormalizeAll(embeddings)],
             metadata |-> sentences, assigned |-> TRUE]

\* get_sentence_by_id testing the upper end of the range only
GetSentenceByIdNoLowerEnd(metadata, sentence_id) ==
    IF sentence_id < Len(metadata) /\ PyInRange(metadata, sentence_id)
    THEN <<PyIndex(metadata, sentence_id)>>
    ELSE <<>>

\* get_sentence_by_id: the record at that position, <<>> standing for None
GetSentenceById(metadata, sentence_id) ==
    IF 0 <= sentence_id /\ sentence_id < Len(metadata)
    THEN <<metadata[sentence_id + 1]>>
    ELSE <<>>

(* ------------------------------------------------------------------ *)
(* The handler's world: documents clients upload, queries, tasks       *)
(* ------------------------------------------------------------------ *)
DocNames == {"A", "B", "E", "P"}

\* A: two pages, a sentence on each and a fragment that is dropped
\* B: one page with an image and three sentences on two lines
\* E: one page without text      P: its second page cannot be read
\* (a file that cannot be opened fails the upload the way P does)
DocOf(name) ==
    CASE name = "A" ->
           Doc(TRUE, << Page(TRUE, <<TextBlock(<< <<Piece("a0", 12), Piece("a-", 7)>> >>)>>),
                        Page(TRUE, <<TextBlock(<< <<>>, <<Piece("a1", 15)>> >>)>>) >>)
      [] name = "B" ->
           Doc(TRUE, << Page(TRUE, <<ImageBlock,
                                     TextBlock(<< <<Piece("b0", 11)>>,
                                                  <<Piece("b-", 3), Piece("b1", 20), Piece("b2", 30)>> >>)>>) >>)
      [] name = "E" -> Doc(TRUE, << Page(TRUE, <<>>) >>)
      [] name = "P" ->
           Doc(TRUE, << Page(TRUE, <<TextBlock(<< <<Piece("a0", 12)>> >>)>>),
                        Page(FALSE, <<>>) >>)
      [] OTHER -> Doc(FALSE, <<>>)

Queries == {"q0", "q1"}

\* the query an upload request carries
UploadQueries == {"q1"}

\* The request tasks that may run on the handler at the same time
Tasks == {"t1", "t2"}

\* top_k of the retrieval inside _generate_literature_review
ReviewTopK == 10

NoResult == [kind |-> "none"]

IdleTask ==
    [pc |-> "idle", filename |-> <<>>, content |-> [size |-> 0, head |-> <<>>],
     doc |-> "", query |-> "", validation |-> [valid |-> FALSE, error |-> ""],
     file_path |-> 0, sentences |-> <<>>, total_pages |-> 0,
     review |-> "", relevant |-> <<>>, result |-> NoResult]

\* the failure envelope of handle_pdf_upload for a rejected input
RejectedEnvelope(error) ==
    [kind |-> "returned", success |-> FALSE, error |-> error, error_type |-> "validation"]

\* an except clause that logs and re-raises, as the inner functions do
ProcessingEnvelopeReraised(error) ==
    [kind |-> "raised", success |-> FALSE, error |-> error, error_type |-> "processing"]

\* an except clause that reports the upload as done without an index
ProcessingEnvelopeDegraded(error) ==
    [kind |-> "returned", success |-> TRUE, error |-> error, error_type |-> "processing"]

\* the except clause of handle_pdf_upload: any exception becomes an envelope
ProcessingEnvelope(error) ==
    [kind |-> "returned", success |-> FALSE, error |-> error, error_type |-> "processing"]

\* the success envelope: analysis_result and file_info
SuccessEnvelope(task, doc, total_embeddings, gaps) ==
    [kind |-> "returned", success |-> TRUE,
     analysis_result |->
        [doc |-> doc,
         total_pages |-> task.total_pages,
         total_sentences |-> Len(task.sentences),
         sentences |-> task.sentences,
         literature_review |-> task.review,
         relevant_sentences |-> task.relevant,
         gaps_analysis |-> gaps,
         total_embeddings |-> total_embeddings],
     file_info |-> [file_path |-> task.file_path]]

VARIABLES
    pdf_analyzer,       \* handler.pdf_analyzer is an agent (TRUE) or None
    embedding_model,    \* agent.embedding_model: 0 for None, else the instance
    models_created,     \* SentenceTransformer instances constructed so far
    faiss_index,        \* agent.faiss_index
    sentence_metadata,  \* agent.sentence_metadata
    files,              \* the paths of the files in the upload directory
    tasks,              \* the handle_pdf_upload calls in flight or returned
    uploads,            \* handle_pdf_upload calls that reached _save_uploaded_file
    last_build,         \* the call whose _build_rag_index last assigned the index
    builds,             \* _build_rag_index calls that completed
    lastSearch,         \* what the last search_pdf_content / get_pdf_highlights returned
    exPc,               \* where _extract_pdf_content stands
    exDoc,              \* the document at pdf_path
    exPageNum,          \* page_num of the loop
    exSentences,        \* sentences
    exPagesData,        \* pages_data
    exHandle,           \* the fitz document: "none", "open" or "closed"
    exOut,              \* what the call returned or that it raised
    svClock,            \* datetime.now(), in seconds
    svCount,            \* uuid4 values drawn so far
    svCalls,            \* the _save_uploaded_file calls and what follows them
    svDisk,             \* the upload directory: file name -> bytes
    bxPage,             \* one line's box: <<page_width, page_height>>
    bxSpans,            \* the span boxes of the line, [x0, y0, x1, y1] each
    bxPos,              \* spans folded into line_bbox so far
    bxLine,             \* line_bbox
    bxOut,              \* normalized_bbox
    spText,             \* one line's text: line_text, as runs of characters
    spPc,               \* position of the line's processing
    spSentences,        \* line_sentences
    spPos,              \* sentences of line_sentences gone through
    spRecords,          \* the texts of the records appended for the line
    workflow_state,     \* CoralOrchestrator.workflow_state: workflow id -> state dict
    coClock,            \* datetime.now(), in seconds
    coObjects,          \* state dicts created so far (each has an identity)
    coRuns,             \* the calls of execute_research_workflow under way
    active_workflows,   \* AgentOrchestrator.active_workflows: research id -> tracking dict
    orRuns,             \* the calls of AgentOrchestrator.execute_research_workflow
    orCancels,          \* the calls of cancel_workflow
    research_results,   \* table research_results: the ids stored
    failed_workflows,   \* table failed_workflows: the ids stored
    research_history,    \* table research_history: id -> status
    research_jobs,      \* app.research_jobs: job id -> job
    research_orchestrator,\* app.research_orchestrator is a ResearchOrchestrator (TRUE) or None
    jbTasks,            \* the background tasks added by the start endpoints
    jbAudio             \* the calls of get_research_audio

handlerVars ==
    <<pdf_analyzer, embedding_model, models_created, faiss_index, sentence_metadata,
      files, tasks, uploads, last_build, builds, lastSearch>>

extractVars ==
    <<exPc, exDoc, exPageNum, exSentences, exPagesData, exHandle, exOut>>

saveVars == <<svClock, svCount, svCalls, svDisk>>

bboxVars == <<bxPage, bxSpans, bxPos, bxLine, bxOut>>

splitVars == <<spText, spPc, spSentences, spPos, spRecords>>

coralVars == <<workflow_state, coClock, coObjects, coRuns>>

orchVars == <<active_workflows, orRuns, orCancels, research_results, failed_workflows, research_history>>

jobVars == <<research_jobs, research_orchestrator, jbTasks, jbAudio>>

vars == <<handlerVars, extractVars, saveVars, bboxVars, splitVars, coralVars, orchVars, jobVars>>

analyzerVars == <<pdf_analyzer, embedding_model, models_created, faiss_index, sentence_metadata>>

(* ------------------------------------------------------------------ *)
(* Initial states                                                      *)
(* ------------------------------------------------------------------ *)
\* PDFUploadHandler.__init__: an agent exists from the start only when an
\* API key was given; PDFAnalysisAgent.__init__: no model, no index, no
\* metadata.
HandlerInit ==
    /\ pdf_analyzer \in BOOLEAN
    /\ embedding_model = 0
    /\ models_created = 0
    /\ faiss_index = NoIndex
    /\ sentence_metadata = <<>>
    /\ files = {}
    /\ tasks = [t \in Tasks |-> IdleTask]
    /\ uploads = 0
    /\ last_build = [task |-> "", doc |-> "", ok |-> FALSE]
    /\ builds = 0
    /\ lastSearch = NoResult

ExtractIdle ==
    /\ exPc = "off"
    /\ exDoc = Doc(FALSE, <<>>)
    /\ exPageNum = 0
    /\ exSentences = <<>>
    /\ exPagesData = <<>>
    /\ exHandle = "none"
    /\ exOut = NoResult

\* no save under way, an empty upload directory
IdleSave == [pc |-> "idle", filename |-> <<>>, content |-> [size |-> 0, head |-> <<>>],
             file_path |-> <<>>, opened |-> [size |-> 0, head |-> <<>>]]

SaveIdle ==
    /\ svClock = 0
    /\ svCount = 0
    /\ svCalls = [t \in Tasks |-> IdleSave]
    /\ svDisk = {}

\* line_bbox = None
NoBbox == <<>>

BboxIdle ==
    /\ bxPage = <<1, 1>>
    /\ bxSpans = <<>>
    /\ bxPos = 0
    /\ bxLine = NoBbox
    /\ bxOut = NoBbox

SplitIdle ==
    /\ spText = <<>>
    /\ spPc = "off"
    /\ spSentences = <<>>
    /\ spPos = 0
    /\ spRecords = <<>>

\* The calls of CoralOrchestrator.execute_research_workflow that may run
\* at the same time
CoralCalls == {"c1", "c2"}

\* workflow ids: the default "workflow_<second>" and the job ids callers pass
WorkflowIds ==
    {<<"workflow", c>> : c \in 0..MaxCoClock} \cup {<<"job", r>> : r \in CoralCalls}

\* workflow_id not in self.workflow_state
NoWorkflow == [obj |-> 0]

IdleCall == [pc |-> "idle", id |-> <<>>, step |-> 0, obj |-> 0, input |-> "none", outcome |-> ""]

CoralIdle ==
    /\ workflow_state = [id \in WorkflowIds |-> NoWorkflow]
    /\ coClock = 0
    /\ coObjects = 0
    /\ coRuns = [r \in CoralCalls |-> IdleCall]

OrchCalls == {"r1", "r2"}

CancelCalls == {"k1", "k2"}

\* active_workflows.get(research_id) is None
NoTracking == [status |-> "absent"]

IdleCancel == [pc |-> "idle", id |-> "", result |-> "none"]

\* AgentOrchestrator.__init__ and an empty database
OrchIdle ==
    /\ active_workflows = [id \in OrchCalls |-> NoTracking]
    /\ orRuns = [r \in OrchCalls |-> "idle"]
    /\ orCancels = [k \in CancelCalls |-> IdleCancel]
    /\ research_results = {}
    /\ failed_workflows = {}
    /\ research_history = [id \in OrchCalls |-> "none"]

JobIds == {"j1", "j2"}

AudioCalls == {"a1", "a2"}

\* job_id not in research_jobs
NoJob == [kind |-> "none"]

IdleAudio == [pc |-> "idle", id |-> "", response |-> "none"]

\* module import of app.py: no jobs, research_orchestrator = None
JobsIdle ==
    /\ research_jobs = [j \in JobIds |-> NoJob]
    /\ research_orchestrator = FALSE
    /\ jbTasks = [j \in JobIds |-> "none"]
    /\ jbAudio = [a \in AudioCalls |-> IdleAudio]

Init == HandlerInit /\ ExtractIdle /\ SaveIdle /\ BboxIdle /\ SplitIdle /\ CoralIdle /\ OrchIdle /\ JobsIdle

(* ------------------------------------------------------------------ *)
(* handle_pdf_upload                                                   *)
(* ------------------------------------------------------------------ *)
\* Once the bytes are on disk the call uses file_content and filename only
\* to copy them into upload_metadata and file_info; the model stops
\* carrying them there.
AfterSave(task) == [task EXCEPT !.filename = <<>>, !.content = IdleTask.content]

\* the call of task t returns envelope
Finish(t, envelope) ==
    [tasks EXCEPT ![t] = [AfterSave(tasks[t]) EXCEPT !.pc = "done", !.result = envelope]]

\* A call that has returned hands its result to its caller at once: no
\* other code of the event loop runs between the return and the caller's
\* taking it.  The result stays in the state for that one step.
NothingReturned ==
    /\ lastSearch = NoResult
    /\ \A t \in Tasks : tasks[t].pc # "done"

\* From the call to the first suspension: validation, then the start of
\* _save_uploaded_file (the name is generated, aiofiles.open is awaited).
\* The uuid4 in the name is taken to be fresh: the count of calls stands for it.
UploadStart(t, filename, content, doc, query) ==
    /\ NothingReturned
    /\ tasks[t].pc = "idle"
    /\ uploads < MaxUploads
    /\ LET validation_result == ValidatePdfFile(content, filename)
           call == [IdleTask EXCEPT !.filename = filename, !.content = content,
                                    !.validation = validation_result]
       IN IF ~validation_result.valid
          THEN /\ tasks' = [tasks EXCEPT ![t] =
                               [call EXCEPT !.pc = "done",
                                            !.result = RejectedEnvelope(validation_result.error)]]
               /\ uploads' = uploads
          ELSE /\ tasks' = [tasks EXCEPT ![t] =
                               [call EXCEPT !.pc = "saving", !.doc = doc, !.query = query,
                                            !.file_path = uploads + 1]]
               /\ uploads' = uploads + 1
    /\ UNCHANGED <<analyzerVars, files, last_build, builds, lastSearch, extractVars, saveVars, bboxVars, splitVars, coralVars, orchVars, jobVars>>

\* what aiofiles can do: open raises, write raises (the file exists by then)
SaveFaults == {"none", "open", "write"}

\* From the completion of the file write to the next suspension or to the
\* return: the rest of _save_uploaded_file, the creation of the agent,
\* initialize_embeddings, and analyze_pdf up to the sleep of the first LLM
\* call it reaches.  Every exception ends in the except clause of
\* handle_pdf_upload.
UploadSaved(t, saveFault, initFails, lenRaises, buildFault, queryFault) ==
    LET me  == AfterSave(tasks[t])
        ex  == ExtractPdfContent(DocOf(me.doc), lenRaises)
        b   == BuildRagIndex(faiss_index, sentence_metadata, ex.sentences, buildFault)
        model == models_created + 1
        q   == QueryRagIndex(model, b.index, b.metadata, me.query, ReviewTopK, queryFault)
    IN
    /\ NothingReturned
    /\ me.pc = "saving"
    \* a fault is drawn only for a library call this run reaches
    /\ saveFault # "none" => (~initFails /\ ~lenRaises /\ buildFault = "none" /\ queryFault = "none")
    /\ initFails => (~lenRaises /\ buildFault = "none" /\ queryFault = "none")
    /\ ex.status = "raised" => (buildFault = "none" /\ queryFault = "none")
    /\ b.raised => queryFault = "none"
    /\ builds' = builds + (IF saveFault = "none" /\ ~initFails /\ ex.status = "ok" /\ ~b.raised
                           THEN 1 ELSE 0)
    /\ buildFault \in BuildFaults(ex.sentences)
    /\ UNCHANGED <<uploads, lastSearch, extractVars, saveVars, bboxVars, splitVars, coralVars, orchVars, jobVars>>
    /\ IF saveFault # "none"
       THEN /\ files' = IF saveFault = "open" THEN files
                        ELSE files \cup {me.file_path}
            /\ tasks' = Finish(t, ProcessingEnvelope("save failed"))
            /\ UNCHANGED <<analyzerVars, last_build>>
       ELSE
       /\ files' = files \cup {me.file_path}
       /\ pdf_analyzer' = TRUE
       /\ IF initFails
          THEN /\ tasks' = Finish(t, ProcessingEnvelope("model failed"))
               /\ UNCHANGED <<embedding_model, models_created, faiss_index,
                              sentence_metadata, last_build>>
          ELSE
          /\ embedding_model' = model
          /\ models_created' = model
          /\ IF ex.status = "raised"
             THEN /\ tasks' = Finish(t, ProcessingEnvelope("extraction failed"))
                  /\ UNCHANGED <<faiss_index, sentence_metadata, last_build>>
             ELSE
             /\ faiss_index' = b.index
             /\ sentence_metadata' = b.metadata
             /\ last_build' = IF b.assigned
                              THEN [task |-> t, doc |-> me.doc, ok |-> ~b.raised]
                              ELSE last_build
             /\ IF b.raised
                THEN tasks' = Finish(t, ProcessingEnvelope("index failed"))
                ELSE tasks' = [tasks EXCEPT ![t] =
                        [me EXCEPT !.sentences = ex.sentences,
                                   !.total_pages = ex.total_pages,
                                   !.pc = IF q.status = "raised" THEN "gaps_llm"
                                          ELSE "review_llm",
                                   !.review = IF q.status = "raised" THEN "fallback"
                                              ELSE "pending",
                                   !.relevant = q.results]]

\* (variant without the except clause of _generate_literature_review: a
\* failing LLM call ends the upload)
UploadReviewDoneRaising(t, llmFails) ==
    /\ NothingReturned
    /\ tasks[t].pc = "review_llm"
    /\ tasks' = IF llmFails THEN Finish(t, ProcessingEnvelope("llm failed"))
                ELSE [tasks EXCEPT ![t].pc = "gaps_llm", ![t].review = "llm"]
    /\ UNCHANGED <<analyzerVars, files, uploads, last_build, builds, lastSearch, extractVars, saveVars, bboxVars, splitVars, coralVars, orchVars, jobVars>>

\* The first LLM call returns (or fails, which the review's own except
\* clause turns into the fallback review); the gaps analysis then runs up
\* to the sleep of its LLM call.
UploadReviewDone(t, llmFails) ==
    /\ NothingReturned
    /\ tasks[t].pc = "review_llm"
    /\ tasks' = [tasks EXCEPT ![t].pc = "gaps_llm",
                              ![t].review = IF llmFails THEN "fallback" ELSE "llm",
                              ![t].relevant = IF llmFails THEN <<>> ELSE @]
    /\ UNCHANGED <<analyzerVars, files, uploads, last_build, builds, lastSearch, extractVars, saveVars, bboxVars, splitVars, coralVars, orchVars, jobVars>>

\* The second LLM call returns or fails (fallback gaps); analyze_pdf builds
\* its result, reading len(self.sentence_metadata) at this moment, and
\* handle_pdf_upload returns the success envelope.
UploadGapsDone(t, llmFails) ==
    /\ NothingReturned
    /\ tasks[t].pc = "gaps_llm"
    /\ tasks' = Finish(t, SuccessEnvelope(tasks[t], tasks[t].doc, Len(sentence_metadata),
                                          IF llmFails THEN "fallback" ELSE "llm"))
    /\ UNCHANGED <<analyzerVars, files, uploads, last_build, builds, lastSearch, extractVars, saveVars, bboxVars, splitVars, coralVars, orchVars, jobVars>>

\* The caller takes the envelope; the task can serve another request.
UploadReturn(t) ==
    /\ tasks[t].pc = "done"
    /\ tasks' = [tasks EXCEPT ![t] = IdleTask]
    /\ UNCHANGED <<analyzerVars, files, uploads, last_build, builds, lastSearch, extractVars, saveVars, bboxVars, splitVars, coralVars, orchVars, jobVars>>

(* ------------------------------------------------------------------ *)
(* search_pdf_content and get_pdf_highlights                           *)
(* ------------------------------------------------------------------ *)
\* search_pdf_content(file_path, query, top_k): it never suspends, so it
\* is one step.  index_existed and index_size record what the analyzer
\* held when the search ran.
SearchPdfContent(query, top_k, fault) ==
    LET q == QueryRagIndex(embedding_model, faiss_index, sentence_metadata,
                           query, top_k, fault)
        seen == [index_existed |-> faiss_index.exists, index |-> faiss_index,
                 metadata |-> sentence_metadata]
    IN IF ~pdf_analyzer
       THEN [kind |-> "search", success |-> FALSE, error |-> "PDF analyzer not initialized",
             results |-> <<>>, query |-> query, top_k |-> top_k, seen |-> seen]
       ELSE IF q.status = "raised"
       THEN [kind |-> "search", success |-> FALSE, error |-> q.error,
             results |-> <<>>, query |-> query, top_k |-> top_k, seen |-> seen]
       ELSE [kind |-> "search", success |-> TRUE, error |-> "",
             results |-> q.results, query |-> query, top_k |-> top_k, seen |-> seen]

\* (variant whose hits are the stored records themselves, not copies: the
\* score and rank written to a hit land in sentence_metadata)
SearchAliased(query, top_k, fault) ==
    /\ NothingReturned
    /\ fault \in QueryFaults(top_k)
    /\ lastSearch' = SearchPdfContent(query, top_k, fault)
    /\ LET hits == lastSearch'.results
           Last(i) == CHOOSE j \in 1..Len(hits) :
                          /\ hits[j].sentence = sentence_metadata[i]
                          /\ \A k \in 1..Len(hits) :
                                hits[k].sentence = sentence_metadata[i] => k <= j
       IN sentence_metadata' =
              [i \in 1..Len(sentence_metadata) |->
                  IF \E j \in 1..Len(hits) : hits[j].sentence = sentence_metadata[i]
                  THEN sentence_metadata[i]
                          @@ [similarity_score |-> hits[Last(i)].similarity_score,
                              rank |-> hits[Last(i)].rank]
                  ELSE sentence_metadata[i]]
    /\ UNCHANGED <<pdf_analyzer, embedding_model, models_created, faiss_index,
                   files, tasks, uploads, last_build, builds, extractVars, saveVars, bboxVars, splitVars, coralVars, orchVars, jobVars>>

\* search_pdf_content(file_path, query, top_k) as one step: query_rag_index
\* has no suspension point and assigns no field of the agent; each hit is a
\* copy of the stored record
Search(query, top_k, fault) ==
    /\ NothingReturned
    /\ fault \in QueryFaults(top_k)
    /\ lastSearch' = SearchPdfContent(query, top_k, fault)
    /\ UNCHANGED <<analyzerVars, files, tasks, uploads, last_build, builds, extractVars, saveVars, bboxVars, splitVars, coralVars, orchVars, jobVars>>

\* the loop of get_pdf_highlights over sentence_ids from position i on
RECURSIVE Highlights(_, _, _, _)
Highlights(metadata, sentence_ids, i, highlights) ==
    IF i > Len(sentence_ids) THEN highlights
    ELSE LET sentence == GetSentenceById(metadata, sentence_ids[i])
         IN Highlights(metadata, sentence_ids, i + 1,
                       IF sentence # <<>>
                       THEN Append(highlights,
                                   [sentence_id |-> sentence_ids[i],
                                    page |-> sentence[1].page,
                                    bbox |-> sentence[1].bbox,
                                    text |-> sentence[1].text])
                       ELSE highlights)

GetPdfHighlights(sentence_ids) ==
    IF ~pdf_analyzer
    THEN [kind |-> "highlights", success |-> FALSE, error |-> "PDF analyzer not initialized",
          highlights |-> <<>>, sentence_ids |-> sentence_ids,
          seen |-> [metadata |-> sentence_metadata]]
    ELSE [kind |-> "highlights", success |-> TRUE, error |-> "",
          highlights |-> Highlights(sentence_metadata, sentence_ids, 1, <<>>),
          sentence_ids |-> sentence_ids,
          seen |-> [metadata |-> sentence_metadata]]

\* the id lists a client asks highlights for
HighlightRequests == {<<>>, <<0>>, <<1, 0>>, <<-1, 2>>, <<3, 1>>}

Highlight(sentence_ids) ==
    /\ NothingReturned
    /\ lastSearch' = GetPdfHighlights(sentence_ids)
    /\ UNCHANGED <<analyzerVars, files, tasks, uploads, last_build, builds, extractVars, saveVars, bboxVars, splitVars, coralVars, orchVars, jobVars>>

\* The caller of search_pdf_content or get_pdf_highlights takes the result.
SearchReturn ==
    /\ lastSearch # NoResult
    /\ lastSearch' = NoResult
    /\ UNCHANGED <<analyzerVars, files, tasks, uploads, last_build, builds, extractVars, saveVars, bboxVars, splitVars, coralVars, orchVars, jobVars>>

(* ------------------------------------------------------------------ *)
(* The handler under concurrent requests                               *)
(* ------------------------------------------------------------------ *)
BuildFaultNames == {"none", "encode", "shape", "normalize", "add"}

Next ==
    \/ \E t \in Tasks, filename \in FileNames, content \in Contents,
          doc \in DocNames, query \in UploadQueries :
          UploadStart(t, filename, content, doc, query)
    \/ \E t \in Tasks, saveFault \in SaveFaults, initFails \in BOOLEAN,
          lenRaises \in BOOLEAN, buildFault \in BuildFaultNames,
          queryFault \in QueryFaults(ReviewTopK) :
          UploadSaved(t, saveFault, initFails, lenRaises, buildFault, queryFault)
    \/ \E t \in Tasks, llmFails \in BOOLEAN : UploadReviewDone(t, llmFails)
    \/ \E t \in Tasks, llmFails \in BOOLEAN : UploadGapsDone(t, llmFails)
    \/ \E t \in Tasks : UploadReturn(t)
    \/ \E query \in Queries, top_k \in 0..MaxTopK, fault \in {"none", "encode", "search"} :
          Search(query, top_k, fault)
    \/ \E sentence_ids \in HighlightRequests : Highlight(sentence_ids)
    \/ SearchReturn

Spec == Init /\ [][Next]_vars

(* ------------------------------------------------------------------ *)
(* Question answering: ask_question and the chat endpoint              *)
(* ------------------------------------------------------------------ *)
\* Text values of an answer: None, the empty string, or text in pieces
NoneValue == <<"<None>">>

BlankLine == "\n\n"

\* "\n\n".join(texts), kept as the texts with the separators between them
RECURSIVE JoinBlankLine(_)
JoinBlankLine(texts) ==
    IF Len(texts) = 0 THEN <<>>
    ELSE IF Len(texts) = 1 THEN <<texts[1]>>
    ELSE <<texts[1], BlankLine>> \o JoinBlankLine(Tail(texts))

\* bool(x) of Python for an answer
Truthy(x) == x \notin {NoneValue, <<>>}

\* top_k the chat endpoint passes to ask_question
ChatTopK == 8

\* what the LLM integration does on a question: not configured, answers, fails
LlmOutcomes == {"absent", "ok", "fails"}

LlmAnswer == <<"<llm answer>">>

\* ask_question in the state IndexReady: the retrieval hits joined as
\* context and listed as sources, the LLM's answer or the context itself
AskFromIndex(model, index, metadata, question, top_k, llm, fault) ==
    LET q == QueryRagIndex(model, index, metadata, question, top_k, fault)
        context == JoinBlankLine([i \in 1..Len(q.results) |-> q.results[i].sentence.text])
    IN IF q.status = "raised"
       THEN [status |-> "raised", error |-> q.error,
             answer |-> NoneValue, context |-> <<>>, sources |-> <<>>]
       ELSE [status |-> "ok", error |-> "",
             answer |-> IF llm = "ok" THEN LlmAnswer ELSE context,
             context |-> context,
             sources |-> [i \in 1..Len(q.results) |->
                             [sentenceId |-> q.results[i].sentence.id,
                              page |-> q.results[i].sentence.page,
                              score |-> q.results[i].similarity_score]]]

\* an ask_question that sends every question on to the retrieval
AskQuestionUnguarded(model, index, metadata, question, top_k, llm, fault) ==
    AskFromIndex(model, index, metadata, question, top_k, llm, fault)

\* an ask_question whose sources stop one hit short of the context
AskQuestionShortSources(model, index, metadata, question, top_k, llm, fault) ==
    LET a == AskFromIndex(model, index, metadata, question, top_k, llm, fault)
    IN IF ~index.exists \/ model = 0
       THEN [status |-> "ok", error |-> "",
             answer |-> NoneValue, context |-> <<>>, sources |-> <<>>]
       ELSE [a EXCEPT !.sources = SubSeq(a.sources, 1, Len(a.sources) - 1)]

\* ask_question(question, top_k): without an index (none built, or the
\* embedding model unavailable) the empty result; with one, the retrieval
\* hits as context and sources, and the LLM's answer or the context itself.
AskQuestion(model, index, metadata, question, top_k, llm, fault) ==
    IF ~index.exists \/ model = 0
    THEN [status |-> "ok", error |-> "",
          answer |-> NoneValue, context |-> <<>>, sources |-> <<>>]
    ELSE AskFromIndex(model, index, metadata, question, top_k, llm, fault)

NotAsked == [status |-> "not asked"]

\* chat_pdf_endpoint(request): the response body, and what ask_question
\* returned to it and what the analyzer held when it ran
ChatPdfEndpoint(question, llm, fault) ==
    LET asked == AskQuestion(embedding_model, faiss_index, sentence_metadata,
                             question, ChatTopK, llm, fault)
        seen == [index_existed |-> faiss_index.exists, model |-> embedding_model,
                 index |-> faiss_index, metadata |-> sentence_metadata]
        reply(body, a) == [kind |-> "chat", body |-> body,
                           asked |-> a, question |-> question, seen |-> seen]
    IN IF files = {}
       THEN reply([answer |-> <<"No PDF uploaded.">>], NotAsked)
       ELSE IF ~pdf_analyzer
       THEN reply([answer |-> <<"PDF analyzer is not initialized. Please upload a PDF first.">>],
                  NotAsked)
       ELSE IF asked.status = "raised"
       THEN reply([answer |-> <<"Error while processing question">>], asked)
       ELSE IF Truthy(asked.answer)
       THEN reply([answer |-> asked.answer, sources |-> asked.sources,
                   context |-> asked.context], asked)
       ELSE reply([answer |-> <<"No relevant information found in the uploaded PDF.">>], asked)

Chat(question, llm, fault) ==
    /\ NothingReturned
    /\ lastSearch' = ChatPdfEndpoint(question, llm, fault)
    /\ UNCHANGED <<analyzerVars, files, tasks, uploads, last_build, builds, extractVars, saveVars, bboxVars, splitVars, coralVars, orchVars, jobVars>>

\* The handler under uploads and questions
ChatNext ==
    \/ \E t \in Tasks, filename \in FileNames, content \in Contents,
          doc \in DocNames, query \in UploadQueries :
          UploadStart(t, filename, content, doc, query)
    \/ \E t \in Tasks, saveFault \in SaveFaults, initFails \in BOOLEAN,
          lenRaises \in BOOLEAN, buildFault \in BuildFaultNames,
          queryFault \in QueryFaults(ReviewTopK) :
          UploadSaved(t, saveFault, initFails, lenRaises, buildFault, queryFault)
    \/ \E t \in Tasks, llmFails \in BOOLEAN : UploadReviewDone(t, llmFails)
    \/ \E t \in Tasks, llmFails \in BOOLEAN : UploadGapsDone(t, llmFails)
    \/ \E t \in Tasks : UploadReturn(t)
    \/ \E question \in Queries, llm \in LlmOutcomes, fault \in QueryFaults(ChatTopK) :
          Chat(question, llm, fault)
    \/ SearchReturn

SpecChat == Init /\ [][ChatNext]_vars

(* ------------------------------------------------------------------ *)
(* _save_uploaded_file step by step: names, the clock, the directory   *)
(* ------------------------------------------------------------------ *)
\* the characters re.sub(r'[^\w\-_\.]', '_', ...) keeps, among those the
\* model's file names use
KeptChars == {"a", "b", "p", "d", "f", "P", "D", "F", "_", "-", "."}

\* _sanitize_filename
SanitizeFilename(filename) ==
    LET safe_filename == [i \in 1..Len(filename) |->
                             IF filename[i] \in KeptChars THEN filename[i] ELSE "_"]
        ext == SplitExt(safe_filename)
        name == Slice(safe_filename, 0, Len(safe_filename) - Len(ext))
    IN IF Len(safe_filename) > 100
       THEN Slice(name, 0, 95) \o ext
       ELSE safe_filename

\* a name built from the time and the original name alone
UniqueFilenameNoId(timestamp, file_id, safe_filename) ==
    <<ToString(timestamp), "_">> \o safe_filename

\* f"{timestamp}_{file_id}_{safe_filename}"
UniqueFilename(timestamp, file_id, safe_filename) ==
    <<ToString(timestamp), "_", ToString(file_id), "_">> \o safe_filename

\* the names uploads arrive with, and their bytes (all pass validation)
SaveNames ==
    { <<"a", ".", "p", "d", "f">>,
      <<"a", " ", "b", ".", "p", "d", "f">>,
      <<"a", "_", "b", ".", "p", "d", "f">> }

SaveContents == {c \in Contents : ValidatePdfFile(c, <<"a", ".", "p", "d", "f">>).valid}

NoBytes == [size |-> 0, head |-> <<>>]

\* the directory after open(name, 'wb') and after a write to name
WriteFile(disk, name, data) ==
    {f \in disk : f.name # name} \cup {[name |-> name, data |-> data]}

FileData(disk, name) == (CHOOSE f \in disk : f.name = name).data

FileNamesOf(disk) == {f.name : f \in disk}

\* datetime.now() moves on by a second
SvTick ==
    /\ svClock < MaxClock
    /\ svClock' = svClock + 1
    /\ UNCHANGED <<svCount, svCalls, svDisk, handlerVars, extractVars, bboxVars, splitVars, coralVars, orchVars, jobVars>>

\* handle_pdf_upload passes validation and _save_uploaded_file runs up to
\* the awaited aiofiles.open: uuid4 is drawn (a value never drawn before),
\* the time is read, the name is put together
SvBegin(t, filename, content) ==
    /\ svCalls[t].pc = "idle"
    /\ svCount < MaxSaves
    /\ ValidatePdfFile(content, filename).valid
    /\ svCount' = svCount + 1
    /\ svCalls' = [svCalls EXCEPT ![t] =
                      [IdleSave EXCEPT !.pc = "opening", !.filename = filename,
                                       !.content = content,
                                       !.file_path = UniqueFilename(svClock, svCount + 1,
                                                                    SanitizeFilename(filename))]]
    /\ UNCHANGED <<svClock, svDisk, handlerVars, extractVars, bboxVars, splitVars, coralVars, orchVars, jobVars>>

\* aiofiles.open(file_path, 'wb') completes: the file exists and is empty,
\* whatever it held; or it raises
SvOpen(t, fails) ==
    /\ svCalls[t].pc = "opening"
    /\ IF fails
       THEN /\ svCalls' = [svCalls EXCEPT ![t].pc = "failed"]
            /\ svDisk' = svDisk
       ELSE /\ svCalls' = [svCalls EXCEPT ![t].pc = "writing"]
            /\ svDisk' = WriteFile(svDisk, svCalls[t].file_path, NoBytes)
    /\ UNCHANGED <<svClock, svCount, handlerVars, extractVars, bboxVars, splitVars, coralVars, orchVars, jobVars>>

\* f.write(file_content) completes and the path is returned; or it raises
SvWrite(t, fails) ==
    /\ svCalls[t].pc = "writing"
    /\ IF fails
       THEN /\ svCalls' = [svCalls EXCEPT ![t].pc = "failed"]
            /\ svDisk' = svDisk
       ELSE /\ svCalls' = [svCalls EXCEPT ![t].pc = "saved"]
            /\ svDisk' = WriteFile(svDisk, svCalls[t].file_path, svCalls[t].content)
    /\ UNCHANGED <<svClock, svCount, handlerVars, extractVars, bboxVars, splitVars, coralVars, orchVars, jobVars>>

\* handle_pdf_upload goes on to analyze_pdf(file_path, query), whose
\* extraction opens the file at file_path
SvExtract(t) ==
    /\ svCalls[t].pc = "saved"
    /\ svCalls[t].file_path \in FileNamesOf(svDisk)
    /\ svCalls' = [svCalls EXCEPT ![t].pc = "extracting",
                                  ![t].opened = FileData(svDisk, svCalls[t].file_path)]
    /\ UNCHANGED <<svClock, svCount, svDisk, handlerVars, extractVars, bboxVars, splitVars, coralVars, orchVars, jobVars>>

\* the call returns (after the analysis, or through the except clause)
SvReturn(t) ==
    /\ svCalls[t].pc \in {"extracting", "failed"}
    /\ svCalls' = [svCalls EXCEPT ![t] = IdleSave]
    /\ UNCHANGED <<svClock, svCount, svDisk, handlerVars, extractVars, bboxVars, splitVars, coralVars, orchVars, jobVars>>

SaveNext ==
    \/ SvTick
    \/ \E t \in Tasks, filename \in SaveNames, content \in SaveContents :
          SvBegin(t, filename, content)
    \/ \E t \in Tasks, fails \in BOOLEAN : SvOpen(t, fails)
    \/ \E t \in Tasks, fails \in BOOLEAN : SvWrite(t, fails)
    \/ \E t \in Tasks : SvExtract(t)
    \/ \E t \in Tasks : SvReturn(t)

SpecSave == Init /\ [][SaveNext]_vars

(* ------------------------------------------------------------------ *)
(* _extract_pdf_content step by step, on generated documents           *)
(* ------------------------------------------------------------------ *)
\* the lines a generated page is made of: blank, a sentence with a
\* fragment, a dropped piece followed by two sentences
LineShapes ==
    { <<>>,
      <<Piece("s", 12), Piece("f", 7)>>,
      <<Piece("g", 3), Piece("u", 11), Piece("v", 20)>> }

SeqsUpTo(S, n) == UNION {[1..k -> S] : k \in 0..n}

GenPages ==
    {Page(FALSE, <<>>)}
        \cup {Page(TRUE, <<ImageBlock, TextBlock(ls)>>) : ls \in SeqsUpTo(LineShapes, MaxLines)}

GenDocs ==
    {Doc(FALSE, <<>>)}
        \cup {Doc(TRUE, ps) : ps \in (SeqsUpTo(GenPages, MaxPages) \ {<<>>})}

HandlerIdle ==
    /\ pdf_analyzer = FALSE
    /\ embedding_model = 0
    /\ models_created = 0
    /\ faiss_index = NoIndex
    /\ sentence_metadata = <<>>
    /\ files = {}
    /\ tasks = [t \in Tasks |-> IdleTask]
    /\ uploads = 0
    /\ last_build = [task |-> "", doc |-> "", ok |-> FALSE]
    /\ builds = 0
    /\ lastSearch = NoResult

ExtractInit ==
    /\ exPc = "start"
    /\ exDoc \in GenDocs
    /\ exPageNum = 0
    /\ exSentences = <<>>
    /\ exPagesData = <<>>
    /\ exHandle = "none"
    /\ exOut = NoResult
    /\ HandlerIdle
    /\ BboxIdle
    /\ SaveIdle
    /\ SplitIdle
    /\ CoralIdle
    /\ OrchIdle
    /\ JobsIdle

\* doc = fitz.open(pdf_path)
ExOpen ==
    /\ exPc = "start"
    /\ IF exDoc.openable
       THEN /\ exHandle' = "open"
            /\ exPc' = "pages"
            /\ exOut' = exOut
       ELSE /\ exHandle' = exHandle
            /\ exPc' = "done"
            /\ exOut' = ExtractRaised(exHandle)
    /\ UNCHANGED <<exDoc, exPageNum, exSentences, exPagesData, handlerVars, saveVars, bboxVars, splitVars, coralVars, orchVars, jobVars>>

\* one iteration of the page loop; page.get_text raising leaves the
\* function through its except clause, which logs and re-raises
ExPage ==
    /\ exPc = "pages"
    /\ exPageNum < Len(exDoc.pages)
    /\ IF exDoc.pages[exPageNum + 1].readable
       THEN LET r == ProcessPage(exDoc.pages[exPageNum + 1], exPageNum, exSentences)
            IN /\ exSentences' = r.sentences
               /\ exPagesData' = Append(exPagesData, r.page_data)
               /\ exPageNum' = exPageNum + 1
               /\ UNCHANGED <<exPc, exOut>>
       ELSE /\ exPc' = "done"
            /\ exOut' = ExtractRaised(exHandle)
            /\ UNCHANGED <<exSentences, exPagesData, exPageNum>>
    /\ UNCHANGED <<exDoc, exHandle, handlerVars, saveVars, bboxVars, splitVars, coralVars, orchVars, jobVars>>

\* doc.close() after the loop
ExClose ==
    /\ exPc = "pages"
    /\ exPageNum >= Len(exDoc.pages)
    /\ exHandle' = "closed"
    /\ exPc' = "return"
    /\ UNCHANGED <<exDoc, exPageNum, exSentences, exPagesData, exOut, handlerVars, saveVars, bboxVars, splitVars, coralVars, orchVars, jobVars>>

\* the return statement evaluates len(doc) on the closed document
ExReturn(lenRaises) ==
    /\ exPc = "return"
    /\ exPc' = "done"
    /\ exOut' = IF lenRaises THEN ExtractRaised(exHandle)
                ELSE [ExtractOk(exSentences, exPagesData, Len(exDoc.pages))
                         EXCEPT !.handle = exHandle]
    /\ UNCHANGED <<exDoc, exPageNum, exSentences, exPagesData, exHandle, handlerVars, saveVars, bboxVars, splitVars, coralVars, orchVars, jobVars>>

ExtractNext ==
    \/ ExOpen
    \/ ExPage
    \/ ExClose
    \/ \E lenRaises \in BOOLEAN : ExReturn(lenRaises)

SpecExtract == ExtractInit /\ [][ExtractNext]_vars

\* the step-by-step run ends as the one-step operator the handler uses
ExtractStepsAgree ==
    exPc = "done" => \E lenRaises \in BOOLEAN : exOut = ExtractPdfContent(exDoc, lenRaises)

(* ------------------------------------------------------------------ *)
(* _extract_pdf_content: the box of one line, span by span              *)
(* ------------------------------------------------------------------ *)
\* A quotient n / d of the normalisation, kept exact as <<n, d>>, d > 0
Quotient(n, d) == <<n, d>>

QuotientSum(a, b) == <<a[1] * b[2] + b[1] * a[2], a[2] * b[2]>>

QuotientLeq(a, b) == a[1] * b[2] <= b[1] * a[2]

\* "if line_bbox is None: ... else: # Expand bounding box"
ExpandBbox(line_bbox, span_bbox) ==
    IF line_bbox = NoBbox THEN span_bbox
    ELSE <<Min(line_bbox[1], span_bbox[1]),
           Min(line_bbox[2], span_bbox[2]),
           Max(line_bbox[3], span_bbox[3]),
           Max(line_bbox[4], span_bbox[4])>>

\* normalized_bbox: the line's box divided by the page's width and height
NormalizedBbox(line_bbox, page_width, page_height) ==
    [left   |-> Quotient(line_bbox[1], page_width),
     top    |-> Quotient(line_bbox[2], page_height),
     width  |-> Quotient(line_bbox[3] - line_bbox[1], page_width),
     height |-> Quotient(line_bbox[4] - line_bbox[2], page_height)]

\* page.rect of the generated pages: origin (0, 0), this width and height
PageSizes == {<<10, 20>>}

\* Span boxes as page.get_text("dict") reports them: x0 < x1, y0 < y1, in
\* page coordinates.  Text drawn partly off the page keeps its full box: a
\* box may begin left of 0 or end beyond the page's width or height.
XCoords == {-2, 0, 5, 12}

YCoords == {0, 10, 25}

SpanBoxes ==
    {<<x0, y0, x1, y1>> : x0 \in XCoords, y0 \in YCoords, x1 \in XCoords, y1 \in YCoords}
        \ {b \in XCoords \X YCoords \X XCoords \X YCoords : b[1] >= b[3] \/ b[2] >= b[4]}

BboxInit ==
    /\ bxPage \in PageSizes
    /\ bxSpans \in (SeqsUpTo(SpanBoxes, MaxSpans) \ {<<>>})
    /\ bxPos = 0
    /\ bxLine = NoBbox
    /\ bxOut = NoBbox
    /\ HandlerIdle
    /\ ExtractIdle
    /\ SaveIdle
    /\ SplitIdle
    /\ CoralIdle
    /\ OrchIdle
    /\ JobsIdle

\* one iteration of "for span in line['spans']"
BxSpan ==
    /\ bxPos < Len(bxSpans)
    /\ bxLine' = ExpandBbox(bxLine, bxSpans[bxPos + 1])
    /\ bxPos' = bxPos + 1
    /\ UNCHANGED <<bxPage, bxSpans, bxOut, handlerVars, extractVars, saveVars, splitVars, coralVars, orchVars, jobVars>>

\* after the span loop, for a sentence of the line that is kept
BxNormalize ==
    /\ bxPos = Len(bxSpans)
    /\ bxLine # NoBbox
    /\ bxOut = NoBbox
    /\ bxOut' = NormalizedBbox(bxLine, bxPage[1], bxPage[2])
    /\ UNCHANGED <<bxPage, bxSpans, bxPos, bxLine, handlerVars, extractVars, saveVars, splitVars, coralVars, orchVars, jobVars>>

BboxNext == BxSpan \/ BxNormalize

SpecBbox == BboxInit /\ [][BboxNext]_vars

(* ------------------------------------------------------------------ *)
(* _split_into_sentences and the record loop, on the characters          *)
(* ------------------------------------------------------------------ *)
\* A text is kept as its runs of characters of one class: "w" (any
\* character that is neither a mark nor blank), "." (the marks . ! ?) and
\* " " (whitespace); neighbouring runs differ in class.
Run(c, n) == [c |-> c, n |-> n]

\* len(text)
RECURSIVE TextLen(_)
TextLen(text) == IF text = <<>> THEN 0 ELSE Head(text).n + TextLen(Tail(text))

\* text.strip()
Strip(text) ==
    LET a == IF text # <<>> /\ text[1].c = " " THEN 2 ELSE 1
        b == IF text # <<>> /\ text[Len(text)].c = " " THEN Len(text) - 1 ELSE Len(text)
    IN IF b < a THEN <<>> ELSE SubSeq(text, a, b)

\* (variant splitting at every run of marks, blank after it or not)
RECURSIVE ReSplitAtMarks(_, _, _, _)
ReSplitAtMarks(text, i, cur, out) ==
    IF i > Len(text) THEN Append(out, cur)
    ELSE IF text[i].c = "."
    THEN ReSplitAtMarks(text, i + 1, <<>>, Append(out, cur))
    ELSE ReSplitAtMarks(text, i + 1, Append(cur, text[i]), out)

\* re.split(r'[.!?]+\s+', text) from run i on: the leftmost match takes a
\* whole run of marks and the whole run of whitespace after it; cur is the
\* piece being read, out the pieces before it
RECURSIVE ReSplit(_, _, _, _)
ReSplit(text, i, cur, out) ==
    IF i > Len(text) THEN Append(out, cur)
    ELSE IF text[i].c = "." /\ i < Len(text) /\ text[i + 1].c = " "
    THEN ReSplit(text, i + 2, <<>>, Append(out, cur))
    ELSE ReSplit(text, i + 1, Append(cur, text[i]), out)

\* _split_into_sentences(text) on the characters
SplitText(text) ==
    LET sentences == ReSplit(text, 1, <<>>, <<>>)
        stripped  == [k \in 1..Len(sentences) |-> Strip(sentences[k])]
    IN SelectSeq(stripped, LAMBDA sentence : sentence # <<>> /\ TextLen(sentence) > MinSplitLen)

\* the runs a generated line is made of
Runs ==
    {Run("w", n) : n \in {4, 6, 11}} \cup {Run(".", n) : n \in {1, 2}} \cup {Run(" ", n) : n \in {1, 3}}

GenTexts ==
    {text \in SeqsUpTo(Runs, MaxRuns) : \A k \in 1..(Len(text) - 1) : text[k].c # text[k + 1].c}

SplitInit ==
    /\ spText \in GenTexts
    /\ spPc = "line"
    /\ spSentences = <<>>
    /\ spPos = 0
    /\ spRecords = <<>>
    /\ HandlerIdle
    /\ ExtractIdle
    /\ SaveIdle
    /\ BboxIdle
    /\ CoralIdle
    /\ OrchIdle
    /\ JobsIdle

\* "if line_text.strip(): line_sentences = self._split_into_sentences(line_text)"
SpSplit ==
    /\ spPc = "line"
    /\ IF Strip(spText) # <<>>
       THEN /\ spSentences' = SplitText(spText)
            /\ spPc' = "sentences"
       ELSE /\ spSentences' = spSentences
            /\ spPc' = "done"
    /\ UNCHANGED <<spText, spPos, spRecords, handlerVars, extractVars, saveVars, bboxVars, coralVars, orchVars, jobVars>>

\* one iteration of "for i, sentence in enumerate(line_sentences)"
SpSentence ==
    /\ spPc = "sentences"
    /\ spPos < Len(spSentences)
    /\ LET sentence == spSentences[spPos + 1]
       IN spRecords' = IF TextLen(Strip(sentence)) > MinSentenceLen
                       THEN Append(spRecords, Strip(sentence))
                       ELSE spRecords
    /\ spPos' = spPos + 1
    /\ UNCHANGED <<spText, spPc, spSentences, handlerVars, extractVars, saveVars, bboxVars, coralVars, orchVars, jobVars>>

\* the loop over line_sentences ends
SpEnd ==
    /\ spPc = "sentences"
    /\ spPos = Len(spSentences)
    /\ spPc' = "done"
    /\ UNCHANGED <<spText, spSentences, spPos, spRecords, handlerVars, extractVars, saveVars, bboxVars, coralVars, orchVars, jobVars>>

SplitNext == SpSplit \/ SpSentence \/ SpEnd

SpecSplit == SplitInit /\ [][SplitNext]_vars

(* ------------------------------------------------------------------ *)
(* CoralOrchestrator: execute_research_workflow, get_workflow_status    *)
(* ------------------------------------------------------------------ *)
\* the keys of workflow_state[id]['steps'], in the order of the dict
StepNames == <<"search", "summary", "synthesis", "voice", "monetization">>

\* the state dict execute_research_workflow creates; obj is its identity
NewWorkflow(obj) ==
    [obj |-> obj, status |-> "started",
     steps |-> [k \in 1..Len(StepNames) |-> [status |-> "pending", result |-> "none"]]]

\* _get_current_step(workflow)
GetCurrentStep(workflow) ==
    LET open == {k \in 1..Len(StepNames) :
                    workflow.steps[k].status \in {"in-progress", "pending"}}
    IN IF open = {} THEN "completed"
       ELSE StepNames[CHOOSE k \in open : \A j \in open : k <= j]

\* get_workflow_status(workflow_id); <<>> is None
GetWorkflowStatus(workflow_id) ==
    IF workflow_state[workflow_id] = NoWorkflow THEN <<>>
    ELSE LET workflow == workflow_state[workflow_id]
         IN <<[status |-> workflow.status,
               completed_steps |-> Cardinality({k \in 1..Len(StepNames) :
                                                  workflow.steps[k].status = "completed"}),
               current_step |-> GetCurrentStep(workflow)]>>

\* The argument a step function is called with, read when the step
\* starts: the result of the step before it in the dict now stored under
\* the id (summary, synthesis, voice), or a value the call holds itself
StepInput(workflow, k) ==
    IF k \in {2, 3, 4} THEN workflow.steps[k - 1].result ELSE "value"

\* step_state[...] = ... in _execute_step: step_state is the step dict
\* fetched when the step started; it is seen under the id only while the
\* state dict it belongs to is the one stored there
WriteStep(ws, call, status, result) ==
    IF ws[call.id].obj = call.obj
    THEN [ws EXCEPT ![call.id].steps[call.step] = [status |-> status, result |-> result]]
    ELSE ws

\* datetime.now() moves on by a second
CoTick ==
    /\ coClock < MaxCoClock
    /\ coClock' = coClock + 1
    /\ UNCHANGED <<workflow_state, coObjects, coRuns, handlerVars, extractVars, saveVars, bboxVars, splitVars, orchVars, jobVars>>

\* execute_research_workflow(query, max_papers, job_id) up to the await of
\* the search step function.  A job id passed by the caller is one never
\* used before; without one the id is "workflow_" and the second.
CoStart(r, given) ==
    LET workflow_id == IF given THEN <<"job", r>> ELSE <<"workflow", coClock>>
        obj == coObjects + 1
    IN /\ coRuns[r].pc = "idle"
       /\ coObjects < MaxWorkflows
       /\ given => workflow_state[workflow_id] = NoWorkflow
       /\ workflow_state' = [workflow_state EXCEPT ![workflow_id] =
                                [NewWorkflow(obj) EXCEPT !.steps[1].status = "in-progress"]]
       /\ coObjects' = obj
       /\ coRuns' = [coRuns EXCEPT ![r] =
                        [pc |-> "running", id |-> workflow_id, step |-> 1, obj |-> obj,
                         input |-> "value", outcome |-> ""]]
       /\ UNCHANGED <<coClock, handlerVars, extractVars, saveVars, bboxVars, splitVars, orchVars, jobVars>>

\* The step function of call r returns or raises.  search, summary and
\* synthesis may raise; summary and synthesis raise on None (len(None));
\* voice and monetization sleep and return a literal.  Up to the next
\* await: the rest of _execute_step, and either the start of the next
\* step, or the completion of the workflow with _compile_final_results,
\* or the except clause of execute_research_workflow.
CoStepEnd(r, fails) ==
    LET call    == coRuns[r]
        k       == call.step
        raised  == fails \/ (k \in {2, 3} /\ call.input = "none")
        failed  == [WriteStep(workflow_state, call, "error", "none")
                       EXCEPT ![call.id].status = "error"]
        written == WriteStep(workflow_state, call, "completed", "value")
    IN /\ call.pc = "running"
       /\ fails => k <= 3
       /\ IF raised
          THEN /\ workflow_state' = failed
               /\ coRuns' = [coRuns EXCEPT ![r].pc = "done", ![r].outcome = "raised"]
          ELSE IF k < Len(StepNames)
          THEN /\ workflow_state' = [written EXCEPT ![call.id].steps[k + 1].status = "in-progress"]
               /\ coRuns' = [coRuns EXCEPT ![r].step = k + 1,
                                            ![r].obj = written[call.id].obj,
                                            ![r].input = StepInput(written[call.id], k + 1)]
          ELSE IF written[call.id].steps[1].result = "none"
          THEN \* len(None) in _compile_final_results
               /\ workflow_state' = [written EXCEPT ![call.id].status = "error"]
               /\ coRuns' = [coRuns EXCEPT ![r].pc = "done", ![r].outcome = "raised"]
          ELSE /\ workflow_state' = [written EXCEPT ![call.id].status = "completed"]
               /\ coRuns' = [coRuns EXCEPT ![r].pc = "done", ![r].outcome = "returned"]
       /\ UNCHANGED <<coClock, coObjects, handlerVars, extractVars, saveVars, bboxVars, splitVars, orchVars, jobVars>>

\* the caller takes the result or the exception
CoReturn(r) ==
    /\ coRuns[r].pc = "done"
    /\ coRuns' = [coRuns EXCEPT ![r] = IdleCall]
    /\ UNCHANGED <<workflow_state, coClock, coObjects, handlerVars, extractVars, saveVars, bboxVars, splitVars, orchVars, jobVars>>

CoralNext ==
    \/ CoTick
    \/ \E r \in CoralCalls, given \in BOOLEAN : CoStart(r, given)
    \/ \E r \in CoralCalls, fails \in BOOLEAN : CoStepEnd(r, fails)
    \/ \E r \in CoralCalls : CoReturn(r)

SpecCoral == Init /\ [][CoralNext]_vars

(* ------------------------------------------------------------------ *)
(* AgentOrchestrator: execute_research_workflow and cancel_workflow     *)
(* ------------------------------------------------------------------ *)
\* research_id = str(uuid.uuid4()): every call has an id of its own, which
\* the model takes to be the call's name.  Processing times and the
\* system_stats table (whose update swallows its own failures) are left out.

\* ResearchDatabase.store_research_failure raises, and commits nothing, when
\* one of its two plain INSERTs meets a row with the same primary key
FailureInsertRaises(id) == id \in failed_workflows \/ research_history[id] # "none"

\* the except clause of execute_research_workflow up to the await of
\* store_research_failure
WorkflowFailed(r, error) ==
    /\ active_workflows' = [active_workflows EXCEPT ![r] =
           [@ EXCEPT !.status = "failed", !.error = error]]
    /\ orRuns' = [orRuns EXCEPT ![r] = "store_failure"]

\* execute_research_workflow(query) up to the await of search_papers
OrStart(r) ==
    /\ orRuns[r] = "idle"
    /\ active_workflows' = [active_workflows EXCEPT ![r] =
           [status |-> "in_progress", current_step |-> "research",
            papers_found |-> 0, summaries_created |-> 0,
            cancelled_at |-> FALSE, error |-> "none"]]
    /\ orRuns' = [orRuns EXCEPT ![r] = "research"]
    /\ UNCHANGED <<orCancels, research_results, failed_workflows, research_history,
                   handlerVars, extractVars, saveVars, bboxVars, splitVars, coralVars, jobVars>>

\* search_papers returns papers, returns none, or raises
OrResearchDone(r, outcome) ==
    /\ orRuns[r] = "research"
    /\ IF outcome = "value"
       THEN /\ active_workflows' = [active_workflows EXCEPT ![r] =
                   [@ EXCEPT !.current_step = "summarization", !.papers_found = 1]]
            /\ orRuns' = [orRuns EXCEPT ![r] = "summarization"]
       ELSE WorkflowFailed(r, IF outcome = "empty" THEN "No papers found for the given query"
                              ELSE "search failed")
    /\ UNCHANGED <<orCancels, research_results, failed_workflows, research_history,
                   handlerVars, extractVars, saveVars, bboxVars, splitVars, coralVars, jobVars>>

\* summarize_papers_batch returns summaries, returns none, or raises
OrSummariesDone(r, outcome) ==
    /\ orRuns[r] = "summarization"
    /\ IF outcome = "value"
       THEN /\ active_workflows' = [active_workflows EXCEPT ![r] =
                   [@ EXCEPT !.current_step = "synthesis", !.summaries_created = 1]]
            /\ orRuns' = [orRuns EXCEPT ![r] = "synthesis"]
       ELSE WorkflowFailed(r, IF outcome = "empty" THEN "Failed to generate summaries for papers"
                              ELSE "summary failed")
    /\ UNCHANGED <<orCancels, research_results, failed_workflows, research_history,
                   handlerVars, extractVars, saveVars, bboxVars, splitVars, coralVars, jobVars>>

\* synthesize_papers returns or raises
OrSynthesisDone(r, raises) ==
    /\ orRuns[r] = "synthesis"
    /\ IF ~raises
       THEN /\ active_workflows' = [active_workflows EXCEPT ![r].current_step = "presentation"]
            /\ orRuns' = [orRuns EXCEPT ![r] = "presentation"]
       ELSE WorkflowFailed(r, "synthesis failed")
    /\ UNCHANGED <<orCancels, research_results, failed_workflows, research_history,
                   handlerVars, extractVars, saveVars, bboxVars, splitVars, coralVars, jobVars>>

\* format_research_result returns or raises; the result object is built and
\* store_research_result is awaited
OrPresentationDone(r, raises) ==
    /\ orRuns[r] = "presentation"
    /\ IF ~raises
       THEN /\ orRuns' = [orRuns EXCEPT ![r] = "store_result"]
            /\ UNCHANGED active_workflows
       ELSE WorkflowFailed(r, "presentation failed")
    /\ UNCHANGED <<orCancels, research_results, failed_workflows, research_history,
                   handlerVars, extractVars, saveVars, bboxVars, splitVars, coralVars, jobVars>>

\* store_research_result (INSERT OR REPLACE into both tables, then commit)
\* returns and the status becomes "completed", or it raises with nothing
\* committed; the finally clause schedules the cleanup of the tracking
OrResultStored(r, raises) ==
    /\ orRuns[r] = "store_result"
    /\ IF ~raises
       THEN /\ research_results' = research_results \cup {r}
            /\ research_history' = [research_history EXCEPT ![r] = "completed"]
            /\ active_workflows' = [active_workflows EXCEPT ![r].status = "completed"]
            /\ orRuns' = [orRuns EXCEPT ![r] = "returned"]
       ELSE /\ WorkflowFailed(r, "store failed")
            /\ UNCHANGED <<research_results, research_history>>
    /\ UNCHANGED <<orCancels, failed_workflows,
                   handlerVars, extractVars, saveVars, bboxVars, splitVars, coralVars, jobVars>>

\* store_research_failure in the except clause returns or raises; either
\* way execute_research_workflow raises, after the finally clause
OrFailureStored(r) ==
    /\ orRuns[r] = "store_failure"
    /\ IF FailureInsertRaises(r)
       THEN UNCHANGED <<failed_workflows, research_history>>
       ELSE /\ failed_workflows' = failed_workflows \cup {r}
            /\ research_history' = [research_history EXCEPT ![r] = "failed"]
    /\ orRuns' = [orRuns EXCEPT ![r] = "raised"]
    /\ UNCHANGED <<active_workflows, orCancels, research_results,
                   handlerVars, extractVars, saveVars, bboxVars, splitVars, coralVars, jobVars>>

\* _cleanup_workflow_tracking(research_id) after its delay
OrCleanup(r) ==
    /\ orRuns[r] \in {"returned", "raised"}
    /\ active_workflows[r] # NoTracking
    /\ active_workflows' = [active_workflows EXCEPT ![r] = NoTracking]
    /\ UNCHANGED <<orRuns, orCancels, research_results, failed_workflows, research_history,
                   handlerVars, extractVars, saveVars, bboxVars, splitVars, coralVars, jobVars>>

\* cancel_workflow(research_id) up to its return of False or to the await
\* of store_research_failure
CancelWorkflow(k, id) ==
    /\ orCancels[k].pc = "idle"
    /\ IF active_workflows[id] = NoTracking \/ active_workflows[id].status # "in_progress"
       THEN /\ orCancels' = [orCancels EXCEPT ![k] = [pc |-> "done", id |-> id, result |-> "False"]]
            /\ UNCHANGED active_workflows
       ELSE /\ active_workflows' = [active_workflows EXCEPT ![id] =
                   [@ EXCEPT !.status = "cancelled", !.cancelled_at = TRUE]]
            /\ orCancels' = [orCancels EXCEPT ![k] = [pc |-> "storing", id |-> id, result |-> "none"]]
    /\ UNCHANGED <<orRuns, research_results, failed_workflows, research_history,
                   handlerVars, extractVars, saveVars, bboxVars, splitVars, coralVars, jobVars>>

\* store_research_failure in cancel_workflow returns, and the call returns
\* True, or it raises
CancelStored(k) ==
    LET id == orCancels[k].id
    IN /\ orCancels[k].pc = "storing"
       /\ IF FailureInsertRaises(id)
          THEN /\ orCancels' = [orCancels EXCEPT ![k] = [@ EXCEPT !.pc = "done", !.result = "raised"]]
               /\ UNCHANGED <<failed_workflows, research_history>>
          ELSE /\ failed_workflows' = failed_workflows \cup {id}
               /\ research_history' = [research_history EXCEPT ![id] = "failed"]
               /\ orCancels' = [orCancels EXCEPT ![k] = [@ EXCEPT !.pc = "done", !.result = "True"]]
       /\ UNCHANGED <<active_workflows, orRuns, research_results,
                      handlerVars, extractVars, saveVars, bboxVars, splitVars, coralVars, jobVars>>

StepOutcomes == {"value", "empty", "raises"}

OrchNext ==
    \/ \E r \in OrchCalls : OrStart(r)
    \/ \E r \in OrchCalls, outcome \in StepOutcomes : OrResearchDone(r, outcome)
    \/ \E r \in OrchCalls, outcome \in StepOutcomes : OrSummariesDone(r, outcome)
    \/ \E r \in OrchCalls, raises \in BOOLEAN : OrSynthesisDone(r, raises)
    \/ \E r \in OrchCalls, raises \in BOOLEAN : OrPresentationDone(r, raises)
    \/ \E r \in OrchCalls, raises \in BOOLEAN : OrResultStored(r, raises)
    \/ \E r \in OrchCalls : OrFailureStored(r)
    \/ \E r \in OrchCalls : OrCleanup(r)
    \/ \E k \in CancelCalls, id \in OrchCalls : CancelWorkflow(k, id)
    \/ \E k \in CancelCalls : CancelStored(k)

SpecOrch == Init /\ [][OrchNext]_vars

(* ------------------------------------------------------------------ *)
(* Research jobs of app.py                                             *)
(* ------------------------------------------------------------------ *)
\* job_id = str(uuid.uuid4()): a job id is used once.  Two flows put jobs
\* into research_jobs: /api/research/start stores a dict that
\* process_research_job works on, /research stores a ResearchJob object
\* that process_research_job_with_coral works on.  Time stamps and
\* messages are left out.

\* the job either start endpoint stores
NewJob(kind) ==
    [kind |-> kind, status |-> "started",
     progress |-> [k \in 1..Len(StepNames) |-> "pending"],
     error |-> FALSE, results |-> "none"]

\* start_research of /api/research/start: without a research orchestrator
\* and without NEBIUS_API_KEY it answers 500 and stores nothing
StartResearch(j, key_configured) ==
    /\ research_jobs[j] = NoJob
    /\ research_orchestrator \/ key_configured
    /\ research_orchestrator' = TRUE
    /\ research_jobs' = [research_jobs EXCEPT ![j] = NewJob("dict")]
    /\ jbTasks' = [jbTasks EXCEPT ![j] = "scheduled"]
    /\ UNCHANGED <<jbAudio, handlerVars, extractVars, saveVars, bboxVars, splitVars, coralVars, orchVars>>

\* process_research_job up to the await of conduct_research
ProcessResearchJob(j) ==
    /\ jbTasks[j] = "scheduled"
    /\ research_jobs[j].kind = "dict"
    /\ research_jobs' = [research_jobs EXCEPT ![j].status = "processing"]
    /\ jbTasks' = [jbTasks EXCEPT ![j] = "research"]
    /\ UNCHANGED <<research_orchestrator, jbAudio, handlerVars, extractVars, saveVars, bboxVars, splitVars, coralVars, orchVars>>

\* (variant that leaves the progress steps as they are)
ProcessResearchDoneNoProgress(j, raises) ==
    /\ jbTasks[j] = "research"
    /\ research_jobs' = [research_jobs EXCEPT ![j] =
           IF raises THEN [@ EXCEPT !.status = "error", !.error = TRUE]
           ELSE [@ EXCEPT !.results = "value", !.status = "completed"]]
    /\ jbTasks' = [jbTasks EXCEPT ![j] = "ended"]
    /\ UNCHANGED <<research_orchestrator, jbAudio, handlerVars, extractVars, saveVars, bboxVars, splitVars, coralVars, orchVars>>

\* conduct_research returns, or it (or the conversion of its result)
\* raises; the rest of process_research_job runs without suspension
ProcessResearchDone(j, raises) ==
    /\ jbTasks[j] = "research"
    /\ research_jobs' = [research_jobs EXCEPT ![j] =
           IF raises THEN [@ EXCEPT !.status = "error", !.error = TRUE]
           ELSE [@ EXCEPT !.results = "value", !.status = "completed",
                          !.progress = [k \in 1..Len(StepNames) |-> "completed"]]]
    /\ jbTasks' = [jbTasks EXCEPT ![j] = "ended"]
    /\ UNCHANGED <<research_orchestrator, jbAudio, handlerVars, extractVars, saveVars, bboxVars, splitVars, coralVars, orchVars>>

\* start_research of /research
StartCoralResearch(j) ==
    /\ research_jobs[j] = NoJob
    /\ research_jobs' = [research_jobs EXCEPT ![j] = NewJob("ResearchJob")]
    /\ jbTasks' = [jbTasks EXCEPT ![j] = "scheduled"]
    /\ UNCHANGED <<research_orchestrator, jbAudio, handlerVars, extractVars, saveVars, bboxVars, splitVars, coralVars, orchVars>>

\* process_research_job_with_coral: app.orchestrator is None, the call of
\* execute_research_workflow raises and the except clause records it
ProcessCoralJob(j) ==
    /\ jbTasks[j] = "scheduled"
    /\ research_jobs[j].kind = "ResearchJob"
    /\ research_jobs' = [research_jobs EXCEPT ![j] = [@ EXCEPT !.status = "error", !.error = TRUE]]
    /\ jbTasks' = [jbTasks EXCEPT ![j] = "ended"]
    /\ UNCHANGED <<research_orchestrator, jbAudio, handlerVars, extractVars, saveVars, bboxVars, splitVars, coralVars, orchVars>>

\* get_research_audio(job_id) up to its error response or to the await of
\* voice_agent.present.  job["status"] of a ResearchJob object raises.
GetResearchAudio(a, id) ==
    LET job == research_jobs[id]
        response == IF job = NoJob THEN "404"
                    ELSE IF job.kind = "ResearchJob" THEN "500"
                    ELSE IF job.status # "completed" THEN "400"
                    ELSE IF ~research_orchestrator \/ job.results = "none" THEN "500"
                    ELSE "none"
    IN /\ jbAudio[a].pc = "idle"
       /\ jbAudio' = [jbAudio EXCEPT ![a] =
              [pc |-> IF response = "none" THEN "presenting" ELSE "done",
               id |-> id, response |-> response]]
       /\ UNCHANGED <<research_jobs, research_orchestrator, jbTasks, handlerVars, extractVars, saveVars, bboxVars, splitVars, coralVars, orchVars>>

\* voice_agent.present returns audio bytes, returns none, or raises
AudioPresented(a, outcome) ==
    /\ jbAudio[a].pc = "presenting"
    /\ jbAudio' = [jbAudio EXCEPT ![a] =
           [@ EXCEPT !.pc = "done",
                     !.response = IF outcome = "value" THEN "audio" ELSE "500"]]
    /\ UNCHANGED <<research_jobs, research_orchestrator, jbTasks, handlerVars, extractVars, saveVars, bboxVars, splitVars, coralVars, orchVars>>

\* the client has the response
AudioReturn(a) ==
    /\ jbAudio[a].pc = "done"
    /\ jbAudio' = [jbAudio EXCEPT ![a] = IdleAudio]
    /\ UNCHANGED <<research_jobs, research_orchestrator, jbTasks, handlerVars, extractVars, saveVars, bboxVars, splitVars, coralVars, orchVars>>

JobsNext ==
    \/ \E j \in JobIds, key_configured \in BOOLEAN : StartResearch(j, key_configured)
    \/ \E j \in JobIds : ProcessResearchJob(j)
    \/ \E j \in JobIds, raises \in BOOLEAN : ProcessResearchDone(j, raises)
    \/ \E j \in JobIds : StartCoralResearch(j)
    \/ \E j \in JobIds : ProcessCoralJob(j)
    \/ \E a \in AudioCalls, id \in JobIds : GetResearchAudio(a, id)
    \/ \E a \in AudioCalls, outcome \in StepOutcomes : AudioPresented(a, outcome)
    \/ \E a \in AudioCalls : AudioReturn(a)

SpecJobs == Init /\ [][JobsNext]_vars

(* ================================================================== *)
(* Properties                                                          *)
(* ================================================================== *)
InFlight(t) == tasks[t].pc \in {"saving", "review_llm", "gaps_llm"}

Returned(t) == tasks[t].pc = "done"

\* an input the upload contract rejects: wrong extension, no bytes, more
\* than 50 MB, or bytes that do not begin with %PDF-
RejectedInput(filename, content) ==
    \/ Lower(SplitExt(filename)) # <<".", "p", "d", "f">>
    \/ content.size = 0
    \/ content.size > 50 * 1024 * 1024
    \/ ~StartsWith(content.head, <<"%", "P", "D", "F", "-">>)

\* the embeddings an index over these sentences holds, in order
EmbeddingsOf(sentences) == NormalizeAll(EncodeAll(SentenceTexts(sentences)))

\* C1: a call whose input fails validation returns the 'validation'
\* failure envelope in the same step, writes no file, starts neither
\* extraction nor index building, and leaves analyzer, model, index and
\* sentence metadata as they were.
C1_RejectedUploadHasNoEffect ==
    [][\A t \in Tasks :
          (/\ tasks[t].pc = "idle"
           /\ tasks'[t].pc # "idle"
           /\ RejectedInput(tasks'[t].filename, tasks'[t].content))
          => /\ tasks'[t].pc = "done"
             /\ tasks'[t].result.kind = "returned"
             /\ tasks'[t].result.success = FALSE
             /\ tasks'[t].result.error_type = "validation"
             /\ files' = files
             /\ UNCHANGED analyzerVars
             /\ UNCHANGED <<last_build, builds>>
             /\ \A u \in Tasks \ {t} : tasks'[u] = tasks[u]]_vars

C1_Witness ==
    \E t \in Tasks :
        /\ Returned(t)
        /\ RejectedInput(tasks[t].filename, tasks[t].content)
        /\ tasks[t].content.size > 0
        /\ tasks[t].result.error_type = "validation"
        /\ files = {}

\* C2: every call that has ended has returned one of the two envelopes and
\* has not raised; a failure envelope has error_type 'validation' exactly
\* when validation rejected the input, 'processing' otherwise.
C2_UploadAlwaysReturnsEnvelope ==
    \A t \in Tasks : Returned(t) =>
        /\ tasks[t].result.kind = "returned"
        /\ \/ /\ tasks[t].result.success = TRUE
              /\ DOMAIN tasks[t].result = {"kind", "success", "analysis_result", "file_info"}
              /\ tasks[t].validation.valid
           \/ /\ tasks[t].result.success = FALSE
              /\ DOMAIN tasks[t].result = {"kind", "success", "error", "error_type"}
              /\ tasks[t].result.error_type \in {"validation", "processing"}
              /\ tasks[t].result.error_type = "validation" <=> ~tasks[t].validation.valid

C2_Witness ==
    \E t \in Tasks :
        /\ Returned(t)
        /\ tasks[t].validation.valid
        /\ tasks[t].result.success = FALSE
        /\ tasks[t].result.error_type = "processing"
        /\ tasks[t].result.error = "index failed"

\* C3: whenever an index exists, its size is the length of the sentence
\* metadata and position i holds the embedding of sentence_metadata[i].
C3_IndexMatchesMetadata ==
    faiss_index.exists =>
        /\ Len(faiss_index.vecs) = Len(sentence_metadata)
        /\ faiss_index.vecs = EmbeddingsOf(sentence_metadata)

\* C4: a search on a built index of size S >= 1 that succeeds returns
\* exactly min(top_k, S) hits.
C4_TopKBound ==
    (/\ lastSearch.kind = "search"
     /\ lastSearch.success
     /\ Len(lastSearch.seen.index.vecs) >= 1)
    => Len(lastSearch.results) = Min(lastSearch.top_k, Len(lastSearch.seen.index.vecs))

C6_SentenceIdsDense ==
    /\ \A i \in 1..Len(exSentences) : exSentences[i].id = i - 1
    /\ (exPc = "done" /\ exOut.status = "ok") =>
          /\ exOut.sentences = exSentences
          /\ {exOut.sentences[i].id : i \in 1..Len(exOut.sentences)}
                = 0..(Len(exOut.sentences) - 1)

C6_Witness ==
    /\ exPc = "done"
    /\ exOut.status = "ok"
    /\ Len(exOut.sentences) >= 3
    /\ exOut.sentences[1].page = 1
    /\ exOut.sentences[Len(exOut.sentences)].page = 2

\* C7 (as stated): once an upload has returned success on a handler on
\* which another document was analysed too, index and metadata hold
\* exactly the sentences of the returned upload's document.
C7_ReturnedUploadOwnsIndex ==
    \A t \in Tasks :
        (Returned(t) /\ tasks[t].result.success /\ builds >= 2)
        => /\ sentence_metadata = tasks[t].result.analysis_result.sentences
           /\ faiss_index.vecs = EmbeddingsOf(tasks[t].result.analysis_result.sentences)

\* the sentences of the document whose build last assigned the index
LastBuiltSentences == ExtractPdfContent(DocOf(last_build.doc), FALSE).sentences

\* C7 (amended): an upload that returns success while no other call has
\* assigned the index since its own build leaves index and metadata
\* holding exactly its document's sentences; and from a completed build
\* until the next build assigns the index, index and metadata hold exactly
\* the built document's sentences, and every search hit and highlight is
\* one of them (none of an earlier document).
C7_LatestBuildOwnsIndex ==
    /\ \A t \in Tasks :
          (Returned(t) /\ tasks[t].result.success /\ last_build.task = t)
          => /\ last_build.ok
             /\ last_build.doc = tasks[t].doc
             /\ sentence_metadata = tasks[t].result.analysis_result.sentences
             /\ faiss_index.vecs = EmbeddingsOf(tasks[t].result.analysis_result.sentences)
    /\ last_build.ok =>
          /\ faiss_index.exists
          /\ sentence_metadata = LastBuiltSentences
          /\ faiss_index.vecs = EmbeddingsOf(LastBuiltSentences)
          /\ (lastSearch.kind = "search" /\ lastSearch.success) =>
                \A i \in 1..Len(lastSearch.results) :
                    lastSearch.results[i].sentence \in Range(LastBuiltSentences)
          /\ (lastSearch.kind = "highlights" /\ lastSearch.success) =>
                \A i \in 1..Len(lastSearch.highlights) :
                    \E sn \in Range(LastBuiltSentences) :
                        /\ sn.id = lastSearch.highlights[i].sentence_id
                        /\ sn.text = lastSearch.highlights[i].text
                        /\ sn.page = lastSearch.highlights[i].page

C7_Witness ==
    \E t \in Tasks :
        /\ Returned(t)
        /\ tasks[t].result.success
        /\ builds >= 2
        /\ last_build.task = t
        /\ tasks[t].doc = "B"
        /\ Len(sentence_metadata) = 3

\* C8: a search that runs while an upload is in flight sees no index (and
\* reports that) or sees the complete pair of one document: the metadata
\* of that document with the embeddings of exactly those sentences.
C8_SearchSeesCompletePair ==
    (lastSearch.kind = "search" /\ \E t \in Tasks : InFlight(t))
    => IF lastSearch.seen.index_existed
       THEN \E d \in DocNames :
               LET ex == ExtractPdfContent(DocOf(d), FALSE)
               IN /\ ex.status = "ok"
                  /\ lastSearch.seen.metadata = ex.sentences
                  /\ lastSearch.seen.index.vecs = EmbeddingsOf(ex.sentences)
       ELSE lastSearch.success = FALSE

C10_HandleReleased ==
    exPc = "done" => exHandle \in {"none", "closed"}

\* the calls whose input (a named file and its bytes) is still in the state
HoldsInput(t) == tasks[t].filename \notin {<<>>, NoName}

\* C11: for a named file, validation reports the first rule broken in the
\* order extension, byte length (> 0 and <= 50 MB), magic header, and it
\* accepts an input that breaks none, one of exactly 50 MB included.
C11_FirstBrokenRuleIsReported ==
    \A t \in Tasks : HoldsInput(t) =>
        LET f == tasks[t].filename
            c == tasks[t].content
            v == tasks[t].validation
        IN IF Lower(SplitExt(f)) # <<".", "p", "d", "f">>
           THEN ~v.valid /\ v.error = "Invalid file type"
           ELSE IF c.size > 50 * 1024 * 1024
           THEN ~v.valid /\ v.error = "File too large"
           ELSE IF c.size = 0
           THEN ~v.valid /\ v.error = "File is empty"
           ELSE IF ~StartsWith(c.head, <<"%", "P", "D", "F", "-">>)
           THEN ~v.valid /\ v.error = "Invalid PDF file format"
           ELSE v.valid /\ tasks[t].pc = "saving"

C11_Witness ==
    \E t, u \in Tasks :
        /\ tasks[t].pc = "saving"
        /\ tasks[t].content.size = 50 * 1024 * 1024
        /\ tasks[t].validation.valid
        /\ Returned(u)
        /\ HoldsInput(u)
        /\ Lower(SplitExt(tasks[u].filename)) = <<".", "p", "d", "f">>
        /\ tasks[u].content.size > 50 * 1024 * 1024
        /\ ~StartsWith(tasks[u].content.head, <<"%", "P", "D", "F", "-">>)
        /\ tasks[u].validation.error = "File too large"

\* C12: in every hit list query_rag_index returns, a hit's similarity
\* score is at least the score of the hit after it.
C12_ScoresNonIncreasing ==
    (lastSearch.kind = "search" /\ lastSearch.success) =>
        \A i \in 1..(Len(lastSearch.results) - 1) :
            lastSearch.results[i].similarity_score
                >= lastSearch.results[i + 1].similarity_score

C12_Witness ==
    /\ lastSearch.kind = "search"
    /\ lastSearch.success
    /\ Len(lastSearch.results) = 3
    /\ lastSearch.results[1].similarity_score > lastSearch.results[2].similarity_score
    /\ lastSearch.results[2].similarity_score > lastSearch.results[3].similarity_score
    /\ lastSearch.results[1].sentence.text = "b0"
    /\ lastSearch.results[3].sentence.text = "b2"

C15_HighlightsFollowRequest ==
    (lastSearch.kind = "highlights" /\ pdf_analyzer) =>
        LET md == lastSearch.seen.metadata
            InRange(id) == 0 <= id /\ id < Len(md)
            kept == SelectSeq(lastSearch.sentence_ids, InRange)
            hl == lastSearch.highlights
        IN /\ lastSearch.success
           /\ Len(hl) = Len(kept)
           /\ \A k \in 1..Len(kept) :
                 /\ DOMAIN hl[k] = {"sentence_id", "page", "bbox", "text"}
                 /\ hl[k].sentence_id = kept[k]
                 /\ \E r \in Range(md) :
                       /\ r.id = kept[k]
                       /\ r.page = hl[k].page
                       /\ r.bbox = hl[k].bbox
                       /\ r.text = hl[k].text

C15_Witness ==
    /\ lastSearch.kind = "highlights"
    /\ lastSearch.success
    /\ lastSearch.sentence_ids = <<-1, 2>>
    /\ Len(lastSearch.highlights) = 1
    /\ lastSearch.highlights[1].sentence_id = 2
    /\ lastSearch.highlights[1].text = "b2"

\* C16: the embedding model is initialised at most once; after the first
\* initialisation every upload, analysis and query uses that instance.
C16_ModelInitialisedOnce ==
    /\ models_created <= 1
    /\ embedding_model \in {0, 1}

\* C17: an upload's bytes are in a file of its own before extraction opens
\* it: the generated name differs from the name of every other upload,
\* also for equal file names saved within the same second, and no step
\* changes or removes a file another upload wrote.
C17_SavedUnderFreshName ==
    [][/\ \A t \in Tasks :
             svCalls'[t].pc = "extracting" =>
                /\ svCalls'[t].file_path \in FileNamesOf(svDisk')
                /\ svCalls'[t].opened = svCalls'[t].content
                /\ FileData(svDisk', svCalls'[t].file_path) = svCalls'[t].content
       /\ \A t, u \in Tasks :
             (t # u /\ svCalls'[t].pc # "idle" /\ svCalls'[u].pc # "idle")
             => svCalls'[t].file_path # svCalls'[u].file_path
       /\ \A t \in Tasks :
             (svCalls[t].pc = "idle" /\ svCalls'[t].pc = "opening")
             => svCalls'[t].file_path \notin FileNamesOf(svDisk)
       /\ \A f \in svDisk :
             f.data # NoBytes => f \in svDisk']_vars

C17_Witness ==
    \E t, u \in Tasks :
        /\ t # u
        /\ svCalls[t].pc = "extracting"
        /\ svCalls[u].pc = "extracting"
        /\ svCalls[t].filename = svCalls[u].filename
        /\ svCalls[t].content # svCalls[u].content
        /\ svCalls[t].file_path[1] = svCalls[u].file_path[1]
        /\ Cardinality(svDisk) = 2

\* a page without any text on its lines
EmptyPage(page) ==
    \A b \in 1..Len(page.blocks) :
        "lines" \in DOMAIN page.blocks[b] =>
            \A j \in 1..Len(page.blocks[b].lines) : page.blocks[b].lines[j] = <<>>

\* the 1-based positions of pages at which record s is listed
ListedOn(pages, s) ==
    {k \in 1..Len(pages) : \E j \in 1..Len(pages[k].sentences) : pages[k].sentences[j] = s}

\* C18: a returned extraction result has one pages entry per page of the
\* document, numbered 1..total_pages in order (a page without sentences
\* has an entry with an empty list), and every sentence record is listed
\* on exactly the entry of its own page, which lies in 1..total_pages.
C18_PagesMatchDocument ==
    (exPc = "done" /\ exOut.status = "ok") =>
        /\ Len(exOut.pages) = Len(exDoc.pages)
        /\ exOut.total_pages = Len(exOut.pages)
        /\ \A k \in 1..Len(exOut.pages) :
              /\ exOut.pages[k].page_number = k
              /\ EmptyPage(exDoc.pages[k]) => exOut.pages[k].sentences = <<>>
        /\ \A i \in 1..Len(exOut.sentences) :
              /\ exOut.sentences[i].page \in 1..exOut.total_pages
              /\ ListedOn(exOut.pages, exOut.sentences[i]) = {exOut.sentences[i].page}

C18_Witness ==
    /\ exPc = "done"
    /\ exOut.status = "ok"
    /\ exOut.total_pages = 2
    /\ EmptyPage(exDoc.pages[1])
    /\ exOut.pages[1] = [page_number |-> 1, sentences |-> <<>>]
    /\ Len(exOut.pages[2].sentences) >= 2

C20_BboxWithinPage ==
    bxOut # NoBbox =>
        /\ QuotientLeq(Quotient(0, 1), bxOut.left)
        /\ QuotientLeq(Quotient(0, 1), bxOut.top)
        /\ QuotientLeq(QuotientSum(bxOut.left, bxOut.width), Quotient(101, 100))
        /\ QuotientLeq(QuotientSum(bxOut.top, bxOut.height), Quotient(101, 100))

\* C21: every hit of a successful search is the stored record of a
\* position the nearest-neighbour search matched: a list has no more hits
\* than the index has vectors, no hit carries the filler score, and no
\* sentence appears in it twice.
C21_HitsAreMatches ==
    (lastSearch.kind = "search" /\ lastSearch.success) =>
        /\ Len(lastSearch.results) <= Len(lastSearch.seen.index.vecs)
        /\ \A i \in 1..Len(lastSearch.results) :
              /\ lastSearch.results[i].similarity_score # FillerScore
              /\ \A j \in 1..Len(lastSearch.results) :
                    lastSearch.results[i].sentence = lastSearch.results[j].sentence => i = j

\* C22: a search put to the index of a document without sentences (an
\* index of size 0 beside empty metadata) returns an empty hit list, unless
\* the encoder or the search itself failed.
C22_EmptyIndexGivesNoHits ==
    (/\ lastSearch.kind = "search"
     /\ lastSearch.seen.index.exists
     /\ lastSearch.seen.index.vecs = <<>>
     /\ lastSearch.seen.metadata = <<>>
     /\ lastSearch.error \notin {"encode failed", "search failed"})
    => /\ lastSearch.success
       /\ lastSearch.results = <<>>

\* the 1-based positions i of text where a run of marks is followed by
\* whitespace
Breaks(text) == {i \in 1..(Len(text) - 1) : text[i].c = "." /\ text[i + 1].c = " "}

\* the pieces of text between its breaks, left to right: piece k runs from
\* behind break k - 1 to before break k
PiecesOf(text) ==
    LET br    == Breaks(text)
        n     == Cardinality(br)
        At(k) == CHOOSE i \in br : Cardinality({j \in br : j < i}) = k - 1
        From(k) == IF k = 1 THEN 1 ELSE At(k - 1) + 2
        To(k)   == IF k = n + 1 THEN Len(text) ELSE At(k) - 1
    IN [k \in 1..(n + 1) |-> IF To(k) < From(k) THEN <<>> ELSE SubSeq(text, From(k), To(k))]

\* C23: every record text is trimmed, non-empty and longer than 10
\* characters; when a line has been gone through, its records are, in
\* order, the trimmed pieces between the line's breaks (marks followed by
\* whitespace) that are longer than 10 characters, one record each.
C23_RecordsAreLongTrimmedPieces ==
    /\ \A k \in 1..Len(spRecords) :
          /\ spRecords[k] = Strip(spRecords[k])
          /\ spRecords[k] # <<>>
          /\ TextLen(spRecords[k]) > 10
    /\ spPc = "done" =>
          LET pieces  == PiecesOf(spText)
              trimmed == [k \in 1..Len(pieces) |-> Strip(pieces[k])]
          IN spRecords = SelectSeq(trimmed, LAMBDA piece : TextLen(piece) > 10)

C23_Witness ==
    /\ spPc = "done"
    /\ Len(spRecords) = 2
    /\ Cardinality(Breaks(spText)) = 1
    /\ \E k \in 1..Len(spRecords) : \E r \in 1..Len(spRecords[k]) : spRecords[k][r].c = "."

\* C24: once the index of an upload is built, nothing in the review or the
\* gaps generation makes the upload fail.  The step that builds the index
\* goes on to an LLM call, with the fallback review and no relevant
\* sentences when retrieval failed; the return of the review's LLM call
\* goes on to the gaps generation with the LLM's or the fallback review;
\* the return of the gaps' LLM call returns the success envelope with the
\* review decided before and the LLM's or the fallback gaps.
C24_ReviewFailuresFallBack ==
    [][\A t \in Tasks :
          /\ (tasks[t].pc = "saving" /\ builds' = builds + 1 /\ tasks'[t] # tasks[t]) =>
                /\ tasks'[t].pc \in {"review_llm", "gaps_llm"}
                /\ tasks'[t].pc = "gaps_llm" =>
                      (tasks'[t].review = "fallback" /\ tasks'[t].relevant = <<>>)
          /\ (tasks[t].pc = "review_llm" /\ tasks'[t] # tasks[t]) =>
                /\ tasks'[t].pc = "gaps_llm"
                /\ tasks'[t].review \in {"llm", "fallback"}
                /\ tasks'[t].review = "fallback" => tasks'[t].relevant = <<>>
          /\ (tasks[t].pc = "gaps_llm" /\ tasks'[t] # tasks[t]) =>
                /\ tasks'[t].pc = "done"
                /\ tasks'[t].result.success
                /\ tasks'[t].result.analysis_result.literature_review = tasks[t].review
                /\ tasks'[t].result.analysis_result.gaps_analysis \in {"llm", "fallback"}]_vars

C24_Witness ==
    \E t \in Tasks :
        /\ Returned(t)
        /\ tasks[t].result.success
        /\ tasks[t].result.analysis_result.literature_review = "fallback"
        /\ tasks[t].result.analysis_result.relevant_sentences = <<>>
        /\ tasks[t].result.analysis_result.gaps_analysis = "fallback"
        /\ tasks[t].result.analysis_result.total_sentences >= 2

\* C25: in every workflow state the steps have run in the order search,
\* summary, synthesis, voice, monetization: a step that is no longer
\* pending has only completed steps before it, at most one step is in
\* progress, a failed step has only pending steps after it and makes the
\* workflow's status 'error', and the status is 'completed' only when all
\* five steps are.
C25_StepsRunInOrder ==
    \A id \in WorkflowIds : workflow_state[id] # NoWorkflow =>
        LET w == workflow_state[id]
            n == Len(StepNames)
        IN /\ \A k \in 1..n : w.steps[k].status # "pending" =>
                 \A j \in 1..(k - 1) : w.steps[j].status = "completed"
           /\ Cardinality({k \in 1..n : w.steps[k].status = "in-progress"}) <= 1
           /\ \A k \in 1..n : w.steps[k].status = "error" =>
                 /\ w.status = "error"
                 /\ \A j \in (k + 1)..n : w.steps[j].status = "pending"
           /\ w.status = "completed" => \A k \in 1..n : w.steps[k].status = "completed"

\* C29: get_workflow_status reports current_step 'completed' exactly for
\* the workflows whose status is 'completed'.
C29_CompletedStepMeansCompleted ==
    \A id \in WorkflowIds : GetWorkflowStatus(id) # <<>> =>
        (GetWorkflowStatus(id)[1].current_step = "completed"
            <=> GetWorkflowStatus(id)[1].status = "completed")

\* C26: once cancel_workflow(id) has returned True the workflow is
\* cancelled: while it is tracked its status is "cancelled", never
\* "completed" or "failed", and no research result is stored for it
C26_CancelledStaysCancelled ==
    \A k \in CancelCalls :
        (orCancels[k].pc = "done" /\ orCancels[k].result = "True") =>
            LET id == orCancels[k].id
            IN /\ active_workflows[id] # NoTracking => active_workflows[id].status = "cancelled"
               /\ id \notin research_results

\* C27: the step in which handle_pdf_upload ends in a "processing" failure
\* (every such failure arises between the file write and the first LLM
\* call, the only part of the call that touches the analyzer's index)
\* leaves the published index and the sentence metadata as they were.
C27_FailedUploadKeepsIndex ==
    [][\A t \in Tasks :
          (/\ tasks[t].pc = "saving"
           /\ tasks'[t].pc = "done"
           /\ ~tasks'[t].result.success
           /\ tasks'[t].result.error_type = "processing") =>
              /\ faiss_index' = faiss_index
              /\ sentence_metadata' = sentence_metadata]_vars

\* C28: every analysis result returned has total_embeddings equal to the
\* total_sentences of the same document, overlapping uploads included.
C28_EmbeddingsCountSentences ==
    \A t \in Tasks :
        (Returned(t) /\ tasks[t].result.success) =>
            tasks[t].result.analysis_result.total_embeddings =
                tasks[t].result.analysis_result.total_sentences

\* the status changes a job handled by process_research_job may make
JobStatusEdges == {<<"started", "processing">>, <<"processing", "completed">>,
                   <<"processing", "error">>}

====
